---- MODULE Spec2Model ----
(***************************************************************************)
(* Model of ska_pst_testutils.                                             *)
(*                                                                         *)
(* Part 1: udp_gen/udp_data_generator.py, class UdpDataGenerator.  One     *)
(* generator instance is shared by a set of caller threads.  A caller      *)
(* invokes generate_udp_data, abort (also reached through __del__) or      *)
(* wait_for_end_of_data.  Every successful generate_udp_data starts one    *)
(* background thread (_generate_udp_data_background), which launches one   *)
(* external process and one log-drain thread                               *)
(* (_stream_subprocess_output_to_log).  Statements executed while holding  *)
(* _rlock are one step; everything else is one step per statement that     *)
(* reads or writes shared state.  Time is abstracted: a timeout may expire *)
(* at any moment.                                                          *)
(*                                                                         *)
(* Part 2: the functions of common/smrb_util.py, common/receive_util.py    *)
(* and dada/dsp_data_analyser.py, one call at a time (KeySpec, RecvSpec,   *)
(* ContiguousSpec, DroppedSpec).                                           *)
(*                                                                         *)
(* Part 3: the functions that map a scan request to resources              *)
(* (common/band_config.py, receive_util.py, dsp_util.py, smrb_util.py),    *)
(* one call at a time (RequestSpec).                                       *)
(*                                                                         *)
(* Part 4: create_udp_data_generator and the validators of the generator   *)
(* parameters (CreateSpec).                                                *)
(*                                                                         *)
(* Part 5: common/pst_device_proxy.py, the change event subscriptions of   *)
(* one PstDeviceProxy (ProxySpec).                                         *)
(*                                                                         *)
(* Part 6: the quantities the receive resources and check_contiguous_files *)
(* compute from one request, in the float arithmetic of Python             *)
(* (AnchorSpec).                                                           *)
(*                                                                         *)
(* Part 7: common/pst_device_proxy.py, class DeviceProxyFactory            *)
(* (FactorySpec).                                                          *)
(*                                                                         *)
(* Part 8: scan_config/scan_id_factory.py, class ScanIdFactory             *)
(* (ScanIdSpec, FairScanIdSpec).                                           *)
(*                                                                         *)
(* Part 9: tango/attributes_monitor.py, the history of one attribute and   *)
(* a caller waiting for its update (HistorySpec).                          *)
(*                                                                         *)
(* Part 10: tango/tango.py, class LongRunningCommandTracker, the event     *)
(* handler and a caller waiting for a command (TrackerSpec).               *)
(*                                                                         *)
(* Part 11: scan_config/scan_config_generator.py, calculate_resolution and *)
(* ScanConfigGenerator.calculate_resources (ResourcesSpec).                *)
(***************************************************************************)
EXTENDS Integers, FiniteSets, Sequences, TLC

\* Number of caller threads sharing the generator instance.
NumCallers == 2

\* A background thread, its external process and its log-drain thread are
\* named after the caller whose generate_udp_data started the thread.
Callers == 1..NumCallers

\* Python's None, for udp_data_thread and _process
None == 0

\* _GeneratingState
WAITING == 0
STARTING == 1
GENERATING == 2
ABORTING == 3
STOPPED == 4

GeneratingState == {WAITING, STARTING, GENERATING, ABORTING, STOPPED}

VARIABLES
    state,            \* self._state
    udp_data_thread,  \* self.udp_data_thread: None or the thread last assigned
    process,          \* self._process: None or the process last launched
    abort_evt,        \* self._abort_evt.is_set()
    pc,               \* pc[c]: where caller thread c is
    raised,           \* raised[c]: the method in which c's last call raised
    bg,               \* bg[b]: where background thread b is
    logt,             \* logt[b]: where the log-drain thread started by b is
    proc,             \* proc[p]: the external process launched by b = p
    terminated,       \* terminated[p]: Popen.terminate() was called on p
    returncode,       \* returncode[p]: p.returncode is not None
    abortFrom,        \* history: the state c's running abort() read under the lock
    genReturned,      \* history: some generate_udp_data call has returned
    abortSets,        \* history: number of calls of _abort_evt.set()
    popenRaised,      \* history: popenRaised[b]: subprocess.Popen raised in b
    call,             \* the call of a utility function: its name and arguments
    result,           \* what that call returned or raised
    _subscriptions,   \* PstDeviceProxy._subscriptions: attribute name to handle
    subscriptions,    \* the ChangeEventSubscription objects constructed
    _device,          \* PstDeviceProxy._device: the calls the device received
    called,           \* the callbacks the proxy called itself
    history,          \* history: the calls made on the proxy and its handles
    _raw_proxies,     \* DeviceProxyFactory._raw_proxies: fqdn to DeviceProxy
    __proxies,        \* DeviceProxyFactory.__proxies: fqdn to PstDeviceProxy
    _proxy_supplier,  \* the calls DeviceProxyFactory._proxy_supplier received
    requests,         \* history: the get_device calls and what they returned
    _previous_scan_ids,  \* ScanIdFactory._previous_scan_ids
    next_scan_id,     \* next_scan_id of the running generate_scan_id
    scan_id_pc,       \* where the caller of generate_scan_id is
    scan_ids,         \* history: the ids generate_scan_id returned, in order
    _history,         \* _AttributeHistory._history
    current_value,    \* current_value of the running wait_for_update
    wait_pc,          \* where the caller of wait_for_update is
    elapsed,          \* the timeout of the running wait_for_update has passed
    updated,          \* history: the value changed during the call, in time
    _command_status_events,  \* LongRunningCommandTracker._command_status_events
    _lock,            \* LongRunningCommandTracker._lock: who holds it
    _condvar,         \* LongRunningCommandTracker._condvar: owner and waiters
    handler_pc,       \* where the thread running _handle_evt is
    values,           \* values of the running _handle_evt
    waiter_pc,        \* where the caller of wait_for_command_to_complete is
    endtime,          \* endtime of the running Condition.wait_for
    handled           \* history: number of events _handle_evt was called with

udpVars == <<state, udp_data_thread, process, abort_evt, pc, raised, bg, logt,
             proc, terminated, returncode, abortFrom, genReturned, abortSets,
             popenRaised>>

\* The calls of the functions of common/ and dada/ (Part 2) share no state
\* with the generator.
fnVars == <<call, result>>

\* The device proxy (Part 5) shares no state with either.
proxyVars == <<_subscriptions, subscriptions, _device, called, history>>

\* The device proxy factory (Part 7).
factoryVars == <<_raw_proxies, __proxies, _proxy_supplier, requests>>

\* The utilities of Parts 7 to 10 share no state with the parts above.
\* The scan id factory (Part 8).
scanIdVars == <<_previous_scan_ids, next_scan_id, scan_id_pc, scan_ids>>

\* The history of one monitored attribute (Part 9).
historyVars == <<_history, current_value, wait_pc, elapsed, updated>>

\* The long running command tracker (Part 10).
trackerVars == <<_command_status_events, _lock, _condvar, handler_pc, values,
                 waiter_pc, endtime, handled>>

utilVars == <<factoryVars, scanIdVars, historyVars, trackerVars>>

vars == <<udpVars, fnVars, proxyVars, utilVars>>

callerVars == <<pc, raised>>
procVars == <<proc, terminated, returncode>>
histVars == <<abortFrom, genReturned, abortSets, popenRaised>>

\* No utility function is being called.
NoCall == [op |-> "none"]
NoResult == [kind |-> "none"]

\* UdpDataGenerator.__init__
UdpInit ==
    /\ state = WAITING
    /\ udp_data_thread = None
    /\ process = None
    /\ abort_evt = FALSE
    /\ pc = [c \in Callers |-> "idle"]
    /\ raised = [c \in Callers |-> "none"]
    /\ bg = [b \in Callers |-> "none"]
    /\ logt = [b \in Callers |-> "none"]
    /\ proc = [p \in Callers |-> "none"]
    /\ terminated = [p \in Callers |-> FALSE]
    /\ returncode = [p \in Callers |-> FALSE]
    /\ abortFrom = [c \in Callers |-> WAITING]
    /\ genReturned = FALSE
    /\ abortSets = 0
    /\ popenRaised = [b \in Callers |-> FALSE]

\* PstDeviceProxy.__init__, with a device that has received no call
ProxyInit ==
    /\ _subscriptions = [attribute_name \in {} |-> 0]
    /\ subscriptions = <<>>
    /\ _device = [subscribe_event |-> <<>>,
                  unsubscribe_event |-> <<>>,
                  read_attribute |-> <<>>]
    /\ called = <<>>
    /\ history = <<>>

\* class DeviceProxyFactory: no proxy was requested yet
FactoryInit ==
    /\ _raw_proxies = [fqdn \in {} |-> 0]
    /\ __proxies = [fqdn \in {} |-> 0]
    /\ _proxy_supplier = <<>>
    /\ requests = <<>>

\* ScanIdFactory.__init__
ScanIdFactoryInit ==
    /\ _previous_scan_ids = {}
    /\ next_scan_id = None
    /\ scan_id_pc = "idle"
    /\ scan_ids = <<>>

\* _AttributeHistory.__init__(attribute_name, initial_value)
AttributeHistoryInit(initial_value) ==
    /\ _history = <<initial_value>>
    /\ current_value = None
    /\ wait_pc = "idle"
    /\ elapsed = FALSE
    /\ updated = FALSE

\* LongRunningCommandTracker.__init__
TrackerInit ==
    /\ _command_status_events = [command_id \in {} |-> <<>>]
    /\ _lock = [writer |-> "none"]
    /\ _condvar = [owner |-> "none", waiting |-> FALSE, notified |-> FALSE]
    /\ handler_pc = "idle"
    /\ values = [command_id \in {} |-> "none"]
    /\ waiter_pc = "idle"
    /\ endtime = "None"
    /\ handled = 0

UtilInit ==
    /\ FactoryInit
    /\ ScanIdFactoryInit
    /\ AttributeHistoryInit("IDLE")
    /\ TrackerInit

Init ==
    /\ UdpInit
    /\ ProxyInit
    /\ UtilInit
    /\ call = NoCall
    /\ result = NoResult

is_starting == state = STARTING
is_generating == state = GENERATING
is_aborting == state = ABORTING
is_stopped == state = STOPPED

\* UdpDataGenerator.wait_for: Condition.wait_for(predicate, timeout) can return
\* once the predicate holds or, when a timeout is given, once it expired.  It
\* returns nothing and raises nothing in either case.
wait_for(predicate, timeout) == predicate \/ timeout

\* UdpDataGenerator._set_state (the notify_all wakes the waiters, whose
\* predicates are the guards of the wait_for steps)
set_state(s) == state' = s

(***************************************************************************)
(* generate_udp_data, executed by caller thread c                          *)
(***************************************************************************)
\* GenerateAssert with a fault: the guard looks at the state instead of the
\* thread ("assert not self.is_starting() and not self.is_generating()").
GenerateAssert_ChecksState(c) ==
    /\ pc[c] = "idle"
    /\ IF ~is_starting /\ ~is_generating
       THEN /\ pc' = [pc EXCEPT ![c] = "gen_start"]
            /\ raised' = [raised EXCEPT ![c] = "none"]
       ELSE /\ pc' = pc
            /\ raised' = [raised EXCEPT ![c] = "generate_udp_data"]

\* assert self.udp_data_thread is None, "UDP Generator already generating data"
GenerateAssert(c) ==
    /\ pc[c] = "idle"
    /\ IF udp_data_thread = None
       THEN /\ pc' = [pc EXCEPT ![c] = "gen_start"]
            /\ raised' = [raised EXCEPT ![c] = "none"]
       ELSE /\ pc' = pc
            /\ raised' = [raised EXCEPT ![c] = "generate_udp_data"]

generate_udp_data(c) ==
    /\ GenerateAssert(c)
    /\ UNCHANGED <<state, udp_data_thread, process, abort_evt, bg, logt,
                   procVars, histVars>>
    /\ UNCHANGED <<fnVars, proxyVars, utilVars>>

\* self.udp_data_thread = threading.Thread(...); udp_data_thread.start()
GenerateStartThread(c) ==
    /\ pc[c] = "gen_start"
    /\ udp_data_thread' = c
    /\ bg' = [bg EXCEPT ![c] = "start"]
    /\ pc' = [pc EXCEPT ![c] = "gen_wait_for"]
    /\ UNCHANGED <<state, process, abort_evt, raised, logt, procVars,
                   histVars>>
    /\ UNCHANGED <<fnVars, proxyVars, utilVars>>

\* GenerateWaitFor with a fault: the wait has no timeout
\* ("self.wait_for(self.is_generating)").
GenerateWaitFor_NoTimeout(c) ==
    /\ pc[c] = "gen_wait_for"
    /\ wait_for(is_generating, FALSE)
    /\ pc' = [pc EXCEPT ![c] = "idle"]
    /\ genReturned' = TRUE
    /\ UNCHANGED <<state, udp_data_thread, process, abort_evt, raised, bg,
                   logt, procVars, abortFrom, abortSets, popenRaised>>
    /\ UNCHANGED <<fnVars, proxyVars, utilVars>>

\* self.wait_for(self.is_generating, timeout=1.0); time.sleep(1.0); then the
\* call returns
GenerateWaitFor(c) ==
    /\ pc[c] = "gen_wait_for"
    /\ wait_for(is_generating, TRUE)
    /\ pc' = [pc EXCEPT ![c] = "idle"]
    /\ genReturned' = TRUE
    /\ UNCHANGED <<state, udp_data_thread, process, abort_evt, raised, bg,
                   logt, procVars, abortFrom, abortSets, popenRaised>>
    /\ UNCHANGED <<fnVars, proxyVars, utilVars>>

(***************************************************************************)
(* abort (also __del__), executed by caller thread c                       *)
(***************************************************************************)
\* the body of "with self._rlock:" in abort
AbortLocked(c) ==
    /\ pc[c] = "idle"
    /\ IF state = WAITING
       THEN \* we haven't even started: return
            /\ pc' = pc
            /\ raised' = [raised EXCEPT ![c] = "none"]
            /\ UNCHANGED <<state, abort_evt, abortSets, abortFrom>>
       ELSE IF is_generating \/ is_starting
       THEN IF abort_evt
            THEN \* assert not self._abort_evt.is_set() fails
                 /\ pc' = pc
                 /\ raised' = [raised EXCEPT ![c] = "abort"]
                 /\ UNCHANGED <<state, abort_evt, abortSets, abortFrom>>
            ELSE /\ set_state(ABORTING)
                 /\ abort_evt' = TRUE
                 /\ abortSets' = abortSets + 1
                 /\ pc' = [pc EXCEPT ![c] = "abort_wait_for"]
                 /\ raised' = [raised EXCEPT ![c] = "none"]
                 /\ abortFrom' = [abortFrom EXCEPT ![c] = state]
       ELSE /\ pc' = [pc EXCEPT ![c] = "abort_wait_for"]
            /\ raised' = [raised EXCEPT ![c] = "none"]
            /\ abortFrom' = [abortFrom EXCEPT ![c] = state]
            /\ UNCHANGED <<state, abort_evt, abortSets>>

abort(c) ==
    /\ AbortLocked(c)
    /\ UNCHANGED <<udp_data_thread, process, bg, logt, procVars, genReturned,
                   popenRaised>>
    /\ UNCHANGED <<fnVars, proxyVars, utilVars>>

\* self.wait_for(self.is_stopped), then the call returns
AbortWaitFor(c) ==
    /\ pc[c] = "abort_wait_for"
    /\ wait_for(is_stopped, FALSE)
    /\ pc' = [pc EXCEPT ![c] = "idle"]
    /\ abortFrom' = [abortFrom EXCEPT ![c] = WAITING]
    /\ UNCHANGED <<state, udp_data_thread, process, abort_evt, raised, bg,
                   logt, procVars, genReturned, abortSets, popenRaised>>
    /\ UNCHANGED <<fnVars, proxyVars, utilVars>>

(***************************************************************************)
(* wait_for_end_of_data, executed by caller thread c                       *)
(***************************************************************************)
wait_for_end_of_data(c) ==
    /\ pc[c] = "idle"
    /\ pc' = [pc EXCEPT ![c] = "end_wait_for"]
    /\ raised' = [raised EXCEPT ![c] = "none"]
    /\ UNCHANGED <<state, udp_data_thread, process, abort_evt, bg, logt,
                   procVars, histVars>>
    /\ UNCHANGED <<fnVars, proxyVars, utilVars>>

\* self.wait_for(self.is_stopped, timeout=2 * self.scanlen), then the call
\* returns
WaitForEndOfDataReturn(c) ==
    /\ pc[c] = "end_wait_for"
    /\ wait_for(is_stopped, TRUE)
    /\ pc' = [pc EXCEPT ![c] = "idle"]
    /\ UNCHANGED <<state, udp_data_thread, process, abort_evt, raised, bg,
                   logt, procVars, histVars>>
    /\ UNCHANGED <<fnVars, proxyVars, utilVars>>

(***************************************************************************)
(* _generate_udp_data_background, executed by background thread b          *)
(***************************************************************************)
\* self._set_state(state=_GeneratingState.STARTING)
BgSetStarting(b) ==
    /\ bg[b] = "start"
    /\ set_state(STARTING)
    /\ bg' = [bg EXCEPT ![b] = "config"]
    /\ UNCHANGED <<udp_data_thread, process, abort_evt, callerVars, logt,
                   procVars, histVars>>
    /\ UNCHANGED <<fnVars, proxyVars, utilVars>>

\* self.environment["scan_id"], self.environment["beam_id"], open(filename),
\* self._generate_config_file(fh): each may raise
BgConfigFile(b) ==
    /\ bg[b] = "config"
    /\ \E ok \in BOOLEAN :
           bg' = [bg EXCEPT ![b] = IF ok THEN "popen" ELSE "except"]
    /\ UNCHANGED <<state, udp_data_thread, process, abort_evt, callerVars,
                   logt, procVars, histVars>>
    /\ UNCHANGED <<fnVars, proxyVars, utilVars>>

\* self._process = subprocess.Popen(cmd, ...): may raise
BgPopen(b) ==
    /\ bg[b] = "popen"
    /\ \E ok \in BOOLEAN :
           IF ok
           THEN /\ process' = b
                /\ proc' = [proc EXCEPT ![b] = "running"]
                /\ bg' = [bg EXCEPT ![b] = "set_generating"]
                /\ UNCHANGED popenRaised
           ELSE /\ bg' = [bg EXCEPT ![b] = "except"]
                /\ popenRaised' = [popenRaised EXCEPT ![b] = TRUE]
                /\ UNCHANGED <<process, proc>>
    /\ UNCHANGED <<state, udp_data_thread, abort_evt, callerVars, logt,
                   terminated, returncode, abortFrom, genReturned, abortSets>>
    /\ UNCHANGED <<fnVars, proxyVars, utilVars>>

\* self._set_state(state=_GeneratingState.GENERATING)
BgSetGenerating(b) ==
    /\ bg[b] = "set_generating"
    /\ set_state(GENERATING)
    /\ bg' = [bg EXCEPT ![b] = "start_log"]
    /\ UNCHANGED <<udp_data_thread, process, abort_evt, callerVars, logt,
                   procVars, histVars>>
    /\ UNCHANGED <<fnVars, proxyVars, utilVars>>

\* t = threading.Thread(target=self._stream_subprocess_output_to_log); t.start()
BgStartLogThread(b) ==
    /\ bg[b] = "start_log"
    /\ logt' = [logt EXCEPT ![b] = "running"]
    /\ bg' = [bg EXCEPT ![b] = "evt_wait"]
    /\ UNCHANGED <<state, udp_data_thread, process, abort_evt, callerVars,
                   procVars, histVars>>
    /\ UNCHANGED <<fnVars, proxyVars, utilVars>>

\* if self._abort_evt.wait(timeout=self.scanlen): Event.wait returns True when
\* the event is set and False when the timeout expired (it never raises
\* TimeoutError)
BgAbortEvtWait(b) ==
    /\ bg[b] = "evt_wait"
    /\ bg' = [bg EXCEPT ![b] = IF abort_evt THEN "terminate" ELSE "process_wait"]
    /\ UNCHANGED <<state, udp_data_thread, process, abort_evt, callerVars,
                   logt, procVars, histVars>>
    /\ UNCHANGED <<fnVars, proxyVars, utilVars>>

\* self._process.terminate(): Popen.send_signal polls first, so the exit
\* status of a process that already exited is collected and no signal is sent
BgTerminate(b) ==
    /\ bg[b] = "terminate"
    /\ terminated' = [terminated EXCEPT ![process] = TRUE]
    /\ returncode' = [returncode EXCEPT
                         ![process] = @ \/ proc[process] = "exited"]
    /\ bg' = [bg EXCEPT ![b] = "process_wait"]
    /\ UNCHANGED <<state, udp_data_thread, process, abort_evt, callerVars,
                   logt, proc, histVars>>
    /\ UNCHANGED <<fnVars, proxyVars, utilVars>>

\* BgProcessWait with a fault: the thread does not wait for the process.
BgProcessWait_NoWait(b) ==
    /\ bg[b] = "process_wait"
    /\ bg' = [bg EXCEPT ![b] = "set_stopped"]
    /\ UNCHANGED <<state, udp_data_thread, process, abort_evt, callerVars,
                   logt, procVars, histVars>>
    /\ UNCHANGED <<fnVars, proxyVars, utilVars>>

\* self._process.wait(): blocks until the process has exited
BgProcessWait(b) ==
    /\ bg[b] = "process_wait"
    /\ proc[process] = "exited"
    /\ returncode' = [returncode EXCEPT ![process] = TRUE]
    /\ bg' = [bg EXCEPT ![b] = "set_stopped"]
    /\ UNCHANGED <<state, udp_data_thread, process, abort_evt, callerVars,
                   logt, proc, terminated, histVars>>
    /\ UNCHANGED <<fnVars, proxyVars, utilVars>>

\* self._set_state(state=_GeneratingState.STOPPED); the log line after it and
\* the end of the thread change nothing
BgSetStopped(b) ==
    /\ bg[b] = "set_stopped"
    /\ set_state(STOPPED)
    /\ bg' = [bg EXCEPT ![b] = "done"]
    /\ UNCHANGED <<udp_data_thread, process, abort_evt, callerVars, logt,
                   procVars, histVars>>
    /\ UNCHANGED <<fnVars, proxyVars, utilVars>>

\* BgExcept with a fault: the handler re-raises without the state transition.
BgExcept_NoTransition(b) ==
    /\ bg[b] = "except"
    /\ bg' = [bg EXCEPT ![b] = "raised"]
    /\ UNCHANGED <<state, udp_data_thread, process, abort_evt, callerVars,
                   logt, procVars, histVars>>
    /\ UNCHANGED <<fnVars, proxyVars, utilVars>>

\* except Exception: self._set_state(state=_GeneratingState.STOPPED); raise
BgExcept(b) ==
    /\ bg[b] = "except"
    /\ set_state(STOPPED)
    /\ bg' = [bg EXCEPT ![b] = "raised"]
    /\ UNCHANGED <<udp_data_thread, process, abort_evt, callerVars, logt,
                   procVars, histVars>>
    /\ UNCHANGED <<fnVars, proxyVars, utilVars>>

(***************************************************************************)
(* the external process ska_pst_recv_udpgen launched by b = p              *)
(***************************************************************************)
\* The process exits: its scan length elapsed, it received SIGTERM or it
\* failed.
ProcessExit(p) ==
    /\ proc[p] = "running"
    /\ proc' = [proc EXCEPT ![p] = "exited"]
    /\ UNCHANGED <<state, udp_data_thread, process, abort_evt, callerVars, bg,
                   logt, terminated, returncode, histVars>>
    /\ UNCHANGED <<fnVars, proxyVars, utilVars>>

(***************************************************************************)
(* _stream_subprocess_output_to_log, the thread started by b               *)
(***************************************************************************)
\* not self.is_generating() or self._process.returncode is not None
check_stop_logging_output == ~is_generating \/ returncode[process]

\* One pass of the while loop that ends it: the reads return and
\* _check_stop_logging_output() is true, so the loop breaks.  A pass that only
\* logs the lines read changes nothing.
LogBreak(b) ==
    /\ logt[b] = "running"
    /\ check_stop_logging_output
    /\ logt' = [logt EXCEPT ![b] = "done"]
    /\ UNCHANGED <<state, udp_data_thread, process, abort_evt, callerVars, bg,
                   procVars, histVars>>
    /\ UNCHANGED <<fnVars, proxyVars, utilVars>>

\* The steps of caller thread c inside a call it has begun.
CallerStep(c) ==
    \/ GenerateStartThread(c)
    \/ GenerateWaitFor(c)
    \/ AbortWaitFor(c)
    \/ WaitForEndOfDataReturn(c)

\* The steps of background thread b.
BgStep(b) ==
    \/ BgSetStarting(b)
    \/ BgConfigFile(b)
    \/ BgPopen(b)
    \/ BgSetGenerating(b)
    \/ BgStartLogThread(b)
    \/ BgAbortEvtWait(b)
    \/ BgTerminate(b)
    \/ BgProcessWait(b)
    \/ BgSetStopped(b)
    \/ BgExcept(b)

\* Every step that is not the start of a generate_udp_data call.
OtherStep ==
    \/ \E c \in Callers : abort(c)
    \/ \E c \in Callers : wait_for_end_of_data(c)
    \/ \E c \in Callers : CallerStep(c)
    \/ \E b \in Callers : BgStep(b)
    \/ \E p \in Callers : ProcessExit(p)
    \/ \E b \in Callers : LogBreak(b)

\* Any thread may call any method at any time.
Next ==
    \/ \E c \in Callers : generate_udp_data(c)
    \/ OtherStep

Spec == Init /\ [][Next]_vars

\* No other caller is inside generate_udp_data.
NoGenerateRunning(c) ==
    \A d \in Callers \ {c} : pc[d] \notin {"gen_start", "gen_wait_for"}

\* As Next, but the callers do not overlap their generate_udp_data calls.
SerialNext ==
    \/ \E c \in Callers : generate_udp_data(c) /\ NoGenerateRunning(c)
    \/ OtherStep

SerialSpec == Init /\ [][SerialNext]_vars

\* Scheduling: every thread that can take a step eventually takes one, an
\* expired timeout is noticed, and the external process exits once it was
\* sent SIGTERM or its scan length has elapsed.  Callers are not obliged to
\* begin calls.
Fairness ==
    /\ \A c \in Callers : WF_vars(CallerStep(c))
    /\ \A b \in Callers : WF_vars(BgStep(b))
    /\ \A p \in Callers : WF_vars(ProcessExit(p))
    /\ \A b \in Callers : WF_vars(LogBreak(b))

FairSerialSpec == SerialSpec /\ Fairness

TypeOK ==
    /\ state \in GeneratingState
    /\ udp_data_thread \in Callers \cup {None}
    /\ process \in Callers \cup {None}
    /\ abort_evt \in BOOLEAN
    /\ pc \in [Callers -> {"idle", "gen_start", "gen_wait_for",
                           "abort_wait_for", "end_wait_for"}]
    /\ raised \in [Callers -> {"none", "generate_udp_data", "abort"}]
    /\ bg \in [Callers -> {"none", "start", "config", "popen", "set_generating",
                           "start_log", "evt_wait", "terminate", "process_wait",
                           "set_stopped", "done", "except", "raised"}]
    /\ logt \in [Callers -> {"none", "running", "done"}]
    /\ proc \in [Callers -> {"none", "running", "exited"}]
    /\ terminated \in [Callers -> BOOLEAN]
    /\ returncode \in [Callers -> BOOLEAN]
    /\ abortFrom \in [Callers -> GeneratingState]
    /\ genReturned \in BOOLEAN
    /\ abortSets \in 0..1
    /\ popenRaised \in [Callers -> BOOLEAN]
(***************************************************************************)
(* Properties of UdpDataGenerator                                          *)
(***************************************************************************)
Launched(p) == proc[p] # "none"

\* C1: the state only moves forward along WAITING -> STARTING -> GENERATING
\* -> ABORTING -> STOPPED (the enum order): no step sets it back to an
\* earlier state, in particular not from ABORTING to STARTING or GENERATING.
C1_StateOnlyMovesForward == [][state' >= state]_vars

\* C2: an abort() that finds the state STARTING or GENERATING sets the abort
\* signal and the state ABORTING and goes on to wait; when it returns the
\* state is STOPPED and every process that was launched has had terminate()
\* called on it and has been waited for.
C2_AbortStopsAndTerminates ==
    [][\A c \in Callers :
          /\ (abort(c) /\ state \in {STARTING, GENERATING})
                 => /\ abort_evt' /\ state' = ABORTING
                    /\ pc'[c] = "abort_wait_for"
          /\ (AbortWaitFor(c) /\ abortFrom[c] \in {STARTING, GENERATING})
                 => /\ state' = STOPPED
                    /\ \A p \in Callers :
                           Launched(p) => terminated[p] /\ returncode[p]
      ]_vars

\* C3: no abort() call raises, and the abort signal is set at most once.
C3_AbortNeverRaises ==
    /\ \A c \in Callers : raised[c] # "abort"
    /\ abortSets <= 1
\* C4: with generate_udp_data calls that do not overlap and under Fairness
\* (which includes that the process exits), whenever abort() is called,
\* also before GENERATING was set: once the background thread is started the
\* state eventually is STOPPED, every caller inside a call eventually is
\* out of it, and every process launched eventually has been waited for.
C4_ReachesStoppedNoDeadlockNoLeak ==
    /\ \A b \in Callers : (bg[b] # "none") ~> (state = STOPPED)
    /\ \A c \in Callers : (pc[c] # "idle") ~> (pc[c] = "idle")
    /\ \A p \in Callers : Launched(p) ~> returncode[p]

\* C4 witness: an abort() that found the state STARTING is about to return:
\* the state is STOPPED and the process launched meanwhile was waited for.
C4_Witness ==
    \E c \in Callers :
        /\ pc[c] = "abort_wait_for" /\ abortFrom[c] = STARTING
        /\ state = STOPPED
        /\ process # None /\ returncode[process]

\* C5: the step with which a background thread finishes, normally or by the
\* exception handler, leaves the state STOPPED.
C5_BackgroundEndsStopped ==
    [][\A b \in Callers :
          (bg[b] \notin {"done", "raised"} /\ bg'[b] \in {"done", "raised"})
              => state' = STOPPED
      ]_vars

\* C5 witness: a background thread has ended in its exception handler while
\* an abort was in progress, and the state is STOPPED.
C5_Witness ==
    \E b \in Callers : bg[b] = "raised" /\ abort_evt /\ state = STOPPED

\* C6: the initial state is WAITING, and no step changes the state once it
\* is STOPPED.
C6_StoppedIsTerminal ==
    /\ state = WAITING
    /\ [][state = STOPPED => state' = STOPPED]_vars

\* C7: once a generate_udp_data call has returned, every generate_udp_data
\* call that begins raises the assertion error, starts no background thread
\* and launches no process.
C7_GenerateIsSingleUse ==
    [][genReturned =>
          \A c \in Callers :
              generate_udp_data(c)
                  => /\ raised'[c] = "generate_udp_data"
                     /\ pc'[c] = "idle"
                     /\ bg' = bg /\ proc' = proc
                     /\ udp_data_thread' = udp_data_thread
      ]_vars

\* C7 witness: the caller whose generate_udp_data started the thread called
\* generate_udp_data again, and that call raised.
C7_Witness ==
    \E c \in Callers :
        /\ genReturned /\ udp_data_thread = c
        /\ pc[c] = "idle" /\ raised[c] = "generate_udp_data"

\* C8: abort() in state WAITING returns at once, with the state WAITING and
\* the abort signal unset; abort() in state STOPPED changes neither the state
\* nor the signal and the state is STOPPED for as long as it waits for
\* STOPPED, so that its wait returns at once.
C8_AbortIsNoOpWhenIdle ==
    [][\A c \in Callers :
          /\ (abort(c) /\ state = WAITING)
                 => pc'[c] = "idle" /\ state' = WAITING /\ ~abort_evt'
          /\ (abort(c) /\ state = STOPPED)
                 => state' = STOPPED /\ abort_evt' = abort_evt
          /\ (pc'[c] = "abort_wait_for" /\ abortFrom'[c] = STOPPED)
                 => state' = STOPPED
      ]_vars

\* C9: whenever a background thread is about to collect the exit status
\* (self._process.wait()), the process has exited already or terminate() was
\* called on it.
C9_TerminatedBeforeWait ==
    \A b \in Callers :
        bg[b] = "process_wait"
            => proc[process] = "exited" \/ terminated[process]

\* C10: wait_for_end_of_data returns normally only when the state is STOPPED.
C10_ReturnImpliesStopped ==
    [][\A c \in Callers : WaitForEndOfDataReturn(c) => state = STOPPED]_vars

\* C11: when subprocess.Popen raises in the background thread, the
\* generate_udp_data call that started the thread does not raise: the step
\* that ends its wait returns normally, the call does return (the wait is
\* bounded), and the state becomes STOPPED and stays STOPPED.
C11_LaunchFailureStaysInBackground ==
    /\ [][\A c \in Callers :
              (pc[c] = "gen_wait_for" /\ pc'[c] # "gen_wait_for")
                  => pc'[c] = "idle" /\ raised'[c] = "none"
        ]_vars
    /\ \A c \in Callers :
           (pc[c] = "gen_wait_for" /\ popenRaised[c]) ~> (pc[c] = "idle")
    /\ \A b \in Callers : popenRaised[b] ~> [](state = STOPPED)

\* C11 witness: Popen raised in the thread started by c, the thread has ended
\* in its exception handler, c's generate_udp_data call has returned without
\* raising, no process exists and the state is STOPPED.
C11_Witness ==
    \E c \in Callers :
        /\ popenRaised[c] /\ bg[c] = "raised" /\ proc[c] = "none"
        /\ genReturned /\ pc[c] = "idle" /\ raised[c] = "none"
        /\ state = STOPPED

\* C35: an abort() called once generate_udp_data has started the background
\* thread returns only with the state STOPPED, also when it is called before
\* the thread has set the state STARTING.
C35_AbortAfterStartStops ==
    [][\A c \in Callers :
          (/\ udp_data_thread # None
           /\ \/ abort(c) /\ pc'[c] = "idle" /\ raised'[c] = "none"
              \/ AbortWaitFor(c))
              => state' = STOPPED
      ]_vars

(***************************************************************************)
(* Part 2: the functions of common/ and dada/.  They keep no state between *)
(* calls: a behaviour of UtilSpec is one call, whose name and arguments    *)
(* are drawn in the initial state (call) and whose outcome is recorded by  *)
(* the action of the function called (result).  A str is the sequence of   *)
(* its characters; a float is the exact rational it stands for, kept as a  *)
(* fraction [num, den] in lowest terms with den > 0.                       *)
(***************************************************************************)
Pending == [kind |-> "pending"]

\* The function was called and has returned or raised.
Done(op) == call.op = op /\ result.kind # "pending"

(***************************************************************************)
(* str.format                                                              *)
(***************************************************************************)
\* the digit characters of the presentation types "d" and "x"
Digits == <<"0", "1", "2", "3", "4", "5", "6", "7", "8", "9",
            "a", "b", "c", "d", "e", "f">>

\* format(n, "d") / format(n, "x") for n >= 0: no sign, no leading zero
RECURSIVE FormatInt(_, _)
FormatInt(n, base) ==
    IF n < base
    THEN <<Digits[n + 1]>>
    ELSE FormatInt(n \div base, base) \o <<Digits[(n % base) + 1]>>

\* the "0<width>" of a format spec: zeros on the left up to a minimum width
RECURSIVE ZeroPad(_, _)
ZeroPad(str, width) ==
    IF Len(str) >= width THEN str ELSE ZeroPad(<<"0">> \o str, width)

(***************************************************************************)
(* common/smrb_util.py                                                     *)
(***************************************************************************)
DATA_KEY_SUFFIX == 0
WEIGHTS_KEY_SUFFIX == 2

\* generate_data_key with a fault: the beam id is not padded ("{0:x}{1}{2}").
generate_data_key_NoPadding(beam_id, subband_id) ==
    FormatInt(beam_id, 16) \o FormatInt(subband_id, 10)
        \o FormatInt(DATA_KEY_SUFFIX, 10)

\* "{0:02x}{1}{2}".format(beam_id, subband_id, DATA_KEY_SUFFIX)
generate_data_key(beam_id, subband_id) ==
    ZeroPad(FormatInt(beam_id, 16), 2) \o FormatInt(subband_id, 10)
        \o FormatInt(DATA_KEY_SUFFIX, 10)

\* "{0:02x}{1}{2}".format(beam_id, subband_id, WEIGHTS_KEY_SUFFIX)
generate_weights_key(beam_id, subband_id) ==
    ZeroPad(FormatInt(beam_id, 16), 2) \o FormatInt(subband_id, 10)
        \o FormatInt(WEIGHTS_KEY_SUFFIX, 10)

\* Largest beam id and subband id of a call.
MaxBeamId == 300
MaxSubbandId == 12

\* The calls that generate the two keys of a subband of a beam.
KeyCalls ==
    [op : {"generate_keys"}, beam_id : 0..MaxBeamId,
     subband_id : 0..MaxSubbandId]

\* generate_data_key and generate_weights_key, called with the same
\* arguments
GenerateKeys ==
    /\ result = Pending
    /\ result' = [kind |-> "return",
                  data_key |-> generate_data_key(call.beam_id,
                                                 call.subband_id),
                  weights_key |-> generate_weights_key(call.beam_id,
                                                       call.subband_id)]
    /\ UNCHANGED <<udpVars, proxyVars, utilVars, call>>

(***************************************************************************)
(* float arithmetic, as exact arithmetic on fractions                      *)
(***************************************************************************)
Abs(n) == IF n < 0 THEN -n ELSE n

RECURSIVE GCD(_, _)
GCD(a, b) == IF b = 0 THEN a ELSE GCD(b, a % b)

\* the fraction n / d in lowest terms, d # 0
Rat(n, d) ==
    LET g == GCD(Abs(n), Abs(d))
        sign == IF d < 0 THEN -1 ELSE 1
    IN  [num |-> sign * (n \div g), den |-> sign * (d \div g)]

\* float(n) of an int n
Float(n) == [num |-> n, den |-> 1]

\* a * b; the common factors are cancelled before multiplying
RatMul(a, b) ==
    LET g1 == GCD(Abs(a.num), b.den)
        g2 == GCD(Abs(b.num), a.den)
    IN  [num |-> (a.num \div g1) * (b.num \div g2),
         den |-> (a.den \div g2) * (b.den \div g1)]

\* a / b, b # 0
RatDiv(a, b) ==
    RatMul(a, IF b.num < 0 THEN [num |-> -b.den, den |-> -b.num]
              ELSE [num |-> b.den, den |-> b.num])

\* a - b
RatSub(a, b) == Rat(a.num * b.den - b.num * a.den, a.den * b.den)

\* abs(a)
RatAbs(a) == [num |-> Abs(a.num), den |-> a.den]

\* a < b
RatLess(a, b) == a.num * b.den < b.num * a.den

\* int(math.floor(a)) and int(math.ceil(a))
Floor(a) == a.num \div a.den
Ceil(a) == -((-a.num) \div a.den)

(***************************************************************************)
(* dicts and optional arguments.  A dict with str keys is a function on    *)
(* the set of its keys.  An Optional[str] argument is the sequence of what *)
(* it holds: <<>> for None, <<s>> for the str s.                           *)
(***************************************************************************)
\* d[key] raises KeyError(key) when key is not in d
KeyError(key) == [kind |-> "KeyError", key |-> key]

\* The position in keys of the first key that d lacks, 0 when it has all:
\* the subscription d[key] that raises first when the keys are read in order
FirstMissing(d, keys) ==
    IF \A i \in 1..Len(keys) : keys[i] \in DOMAIN d
    THEN 0
    ELSE CHOOSE i \in 1..Len(keys) :
             /\ keys[i] \notin DOMAIN d
             /\ \A j \in 1..(i - 1) : keys[j] \in DOMAIN d

\* {**d, **overrides}
Override(d, overrides) == overrides @@ d

\* d without the key
Without(d, key) == [k \in DOMAIN d \ {key} |-> d[k]]

\* The value bound to the parameter frequency_band: Optional[str] = None by
\* a call f(**kwargs)
frequency_band_of(kwargs) ==
    IF "frequency_band" \in DOMAIN kwargs
    THEN <<kwargs.frequency_band>>
    ELSE <<>>

(***************************************************************************)
(* common/band_config.py                                                   *)
(***************************************************************************)
LOW_BAND_CONFIG ==
    [udp_format |-> "LowPST", packet_nchan |-> 24, packet_nsamp |-> 32,
     packets_per_buffer |-> 16, num_of_buffers |-> 64]

COMMON_MID_CONFIG == [packet_nchan |-> 185, packet_nsamp |-> 4]

MID_BAND_CONFIG ==
    [band \in {"1", "2", "3", "4", "5a", "5b"} |->
        Override(COMMON_MID_CONFIG,
                 CASE band = "1" ->
                          [udp_format |-> "MidPSTBand1",
                           packets_per_buffer |-> 1024,
                           num_of_buffers |-> 128]
                   [] band = "2" ->
                          [udp_format |-> "MidPSTBand2",
                           packets_per_buffer |-> 1024,
                           num_of_buffers |-> 128]
                   [] band = "3" ->
                          [udp_format |-> "MidPSTBand3",
                           packets_per_buffer |-> 512,
                           num_of_buffers |-> 256]
                   [] band = "4" ->
                          [udp_format |-> "MidPSTBand4",
                           packets_per_buffer |-> 512,
                           num_of_buffers |-> 256]
                   [] band \in {"5a", "5b"} ->
                          [udp_format |-> "MidPSTBand5",
                           packets_per_buffer |-> 512,
                           num_of_buffers |-> 256])]

\* get_frequency_band_config with a fault: a band that is not in
\* MID_BAND_CONFIG gets the configuration of Low.
get_frequency_band_config_DefaultsToLow(frequency_band) ==
    IF frequency_band = <<>> \/ frequency_band = <<"low">>
    THEN [kind |-> "return", value |-> LOW_BAND_CONFIG]
    ELSE IF frequency_band[1] \in DOMAIN MID_BAND_CONFIG
         THEN [kind |-> "return", value |-> MID_BAND_CONFIG[frequency_band[1]]]
         ELSE [kind |-> "return", value |-> LOW_BAND_CONFIG]

\* if frequency_band is None or frequency_band == "low":
\*     return LOW_BAND_CONFIG
\* return MID_BAND_CONFIG[frequency_band]
get_frequency_band_config(frequency_band) ==
    IF frequency_band = <<>> \/ frequency_band = <<"low">>
    THEN [kind |-> "return", value |-> LOW_BAND_CONFIG]
    ELSE IF frequency_band[1] \in DOMAIN MID_BAND_CONFIG
         THEN [kind |-> "return", value |-> MID_BAND_CONFIG[frequency_band[1]]]
         ELSE KeyError(frequency_band[1])

(***************************************************************************)
(* common/receive_util.py                                                  *)
(***************************************************************************)
MEGA_HERTZ == 1000000
NUM_DIMENSIONS == 2

\* tsamp with a fault: the oversampling ratio is applied upside down.
recv_tsamp_RatioInverted(nchan, bandwidth_mhz, oversampling_ratio) ==
    RatDiv(Float(1),
           RatDiv(RatMul(RatDiv(bandwidth_mhz, Float(nchan)),
                         Float(oversampling_ratio[2])),
                  Float(oversampling_ratio[1])))

\* tsamp = 1 / (bandwidth_mhz / nchan * oversampling_ratio[0]
\*              / oversampling_ratio[1]); Python counts tuple items from 0
recv_tsamp(nchan, bandwidth_mhz, oversampling_ratio) ==
    RatDiv(Float(1),
           RatDiv(RatMul(RatDiv(bandwidth_mhz, Float(nchan)),
                         Float(oversampling_ratio[1])),
                  Float(oversampling_ratio[2])))

\* bytes_per_second = nchan * npol * nbits * NUM_DIMENSIONS / 8 * 1_000_000
\* / tsamp.  The product of ints is divided by 8 first, as in the code; the
\* factor 1_000_000 / tsamp is formed before it is multiplied in, which is
\* the same number and keeps the terms of the fractions small.
recv_bytes_per_second(nchan, npol, nbits, tsamp) ==
    RatMul(RatDiv(Float(nchan * npol * nbits * NUM_DIMENSIONS), Float(8)),
           RatDiv(Float(1000000), tsamp))

\* get_udp_format(frequency_band=None, **kwargs), called as
\* get_udp_format(**request_params)
get_udp_format(request_params) ==
    LET config == get_frequency_band_config(frequency_band_of(request_params))
    IN  IF config.kind = "return"
        THEN [kind |-> "return", value |-> config.value.udp_format]
        ELSE config

\* The keys calculate_receive_packet_resources reads from the request, in
\* the order in which it reads them (lines 92 to 96)
PacketKeys ==
    <<"num_frequency_channels", "num_of_polarizations", "bits_per_sample",
      "oversampling_ratio", "total_bandwidth">>

\* calculate_receive_packet_resources (ovrsamp, the oversampling ratio as a
\* string, is left out)
calculate_receive_packet_resources(request_params) ==
    LET udp_format == get_udp_format(request_params)
        missing == FirstMissing(request_params, PacketKeys)
        nchan == request_params.num_frequency_channels
        npol == request_params.num_of_polarizations
        nbits == request_params.bits_per_sample \div NUM_DIMENSIONS
        oversampling_ratio == request_params.oversampling_ratio
        bandwidth == request_params.total_bandwidth
        bandwidth_mhz == RatDiv(Float(bandwidth), Float(MEGA_HERTZ))
        tsamp == recv_tsamp(nchan, bandwidth_mhz, oversampling_ratio)
        bytes_per_second == recv_bytes_per_second(nchan, npol, nbits, tsamp)
    IN  IF udp_format.kind # "return"
        THEN udp_format
        ELSE IF missing # 0
        THEN KeyError(PacketKeys[missing])
        ELSE [kind |-> "return",
              nchan |-> nchan,
              bandwidth |-> bandwidth_mhz,
              npol |-> npol,
              nbits |-> nbits,
              ndim |-> NUM_DIMENSIONS,
              tsamp |-> tsamp,
              udp_format |-> udp_format.value,
              bytes_per_second |-> bytes_per_second]

\* The scan requests of a call: the request of ScanConfigGenerator (432
\* channels, 1562500.0 Hz) with 2 polarisations, 32 bits per sample and the
\* oversampling ratio 4/3, and requests with other channel counts,
\* bandwidths, sample widths and the ratio 8/7.
NumFrequencyChannels == {432, 864, 4320}
NumOfPolarizations == {1, 2}
BitsPerSample == {8, 16, 24, 32}
TotalBandwidth == {1562500, 3125000, 15625000}
OversamplingRatio == {<<4, 3>>, <<8, 7>>}

RecvCalls ==
    [op : {"calculate_receive_packet_resources"},
     num_frequency_channels : NumFrequencyChannels,
     num_of_polarizations : NumOfPolarizations,
     bits_per_sample : BitsPerSample,
     total_bandwidth : TotalBandwidth,
     oversampling_ratio : OversamplingRatio]

CalculateReceivePacketResources ==
    /\ result = Pending
    /\ result' = calculate_receive_packet_resources(call)
    /\ UNCHANGED <<udpVars, proxyVars, utilVars, call>>

\* a + b
RatAdd(a, b) == Rat(a.num * b.den + b.num * a.den, a.den * b.den)

(***************************************************************************)
(* dada/dsp_data_analyser.py: the sizes check_contiguous_files computes    *)
(* from calculated_resources                                               *)
(***************************************************************************)
BITS_PER_BYTE == 8
SIZEOF_FLOAT_IN_BYTES == 4
WEIGHTS_NBITS == 16
MILLISECS_PER_SEC == 1000000

\* buffer_size = packets_per_buffer * resolution
data_buffer_size(resources) ==
    resources.packets_per_buffer * resources.resolution

\* expected_size = scanlen * MILLISECS_PER_SEC * nbit * ndim * npol * nchan
\*                 / (BITS_PER_BYTE * tsamp)
expected_size(scanlen, resources) ==
    RatDiv(RatMul(RatMul(scanlen, Float(MILLISECS_PER_SEC)),
                  Float(resources.nbits * resources.ndim * resources.npol
                            * resources.nchan)),
           RatMul(Float(BITS_PER_BYTE), resources.tsamp))

\* data_bytes_per_file with a fault: the size is not rounded up to a whole
\* number of buffers.
data_bytes_per_file_NotRounded(resources, seconds_per_file) ==
    Floor(RatMul(resources.bytes_per_second, Float(seconds_per_file)))

\* bytes_per_file = int(math.floor(bytes_per_second * SECONDS_PER_FILE));
\* if bytes_per_file % buffer_size != 0:
\*     bytes_per_file += buffer_size - (bytes_per_file % buffer_size)
data_bytes_per_file(resources, seconds_per_file) ==
    LET buffer_size == data_buffer_size(resources)
        bytes_per_file ==
            Floor(RatMul(resources.bytes_per_second, Float(seconds_per_file)))
    IN  IF bytes_per_file % buffer_size # 0
        THEN bytes_per_file + (buffer_size - (bytes_per_file % buffer_size))
        ELSE bytes_per_file

\* expected_num_files = int(math.ceil(expected_size / float(bytes_per_file)))
expected_num_files(scanlen, resources, seconds_per_file) ==
    Ceil(RatDiv(expected_size(scanlen, resources),
                Float(data_bytes_per_file(resources, seconds_per_file))))

\* num_packets_per_file = bytes_per_file // resolution
num_packets_per_file(resources, seconds_per_file) ==
    data_bytes_per_file(resources, seconds_per_file) \div resources.resolution

\* wt_resolution with a fault: the weights use the resolution of the data.
wt_resolution_OfData(resources) == resources.resolution

\* nsamp_per_weight = packet_nsamp; nbit = WEIGHTS_NBITS;
\* weights_channel_stride = packet_nsamp // nsamp_per_weight * nbit
\*                          // BITS_PER_BYTE;
\* wt_resolution = (nchan * weights_channel_stride)
\*                 + (nchan // packet_nchan) * SIZEOF_FLOAT_IN_BYTES
wt_resolution(resources) ==
    LET nsamp_per_weight == resources.packet_nsamp
        nbit == WEIGHTS_NBITS
        weights_channel_stride ==
            ((resources.packet_nsamp \div nsamp_per_weight) * nbit)
                \div BITS_PER_BYTE
    IN  (resources.nchan * weights_channel_stride)
            + (resources.nchan \div resources.packet_nchan)
                  * SIZEOF_FLOAT_IN_BYTES

\* bytes_per_second, after "bytes_per_second *= wt_resolution / resolution"
\* when file_type == "weights"
bytes_per_second(resources, file_type) ==
    IF file_type = "weights"
    THEN RatMul(resources.bytes_per_second,
                RatDiv(Float(wt_resolution(resources)),
                       Float(resources.resolution)))
    ELSE resources.bytes_per_second

\* buffer_size, after "buffer_size = packets_per_buffer * wt_resolution" when
\* file_type == "weights"
buffer_size(resources, file_type) ==
    IF file_type = "weights"
    THEN resources.packets_per_buffer * wt_resolution(resources)
    ELSE data_buffer_size(resources)

\* bytes_per_file, after "bytes_per_file = num_packets_per_file *
\* wt_resolution" when file_type == "weights"
bytes_per_file(resources, file_type, seconds_per_file) ==
    IF file_type = "weights"
    THEN num_packets_per_file(resources, seconds_per_file)
             * wt_resolution(resources)
    ELSE data_bytes_per_file(resources, seconds_per_file)

(***************************************************************************)
(* dada/dsp_data_analyser.py: the files check_contiguous_files reads.      *)
(* files is the sequence of the *.dada files in the order in which glob    *)
(* yields them, each with the fields of ScanFileMetadata the check reads.  *)
(***************************************************************************)
\* total_data_size, after the loop over the files
RECURSIVE total_data_size(_)
total_data_size(files) ==
    IF files = <<>> THEN 0
    ELSE files[Len(files)].data_size
             + total_data_size(SubSeq(files, 1, Len(files) - 1))

\* files_data, after the loop over the files: "files_data[file_number] =
\* file_data" keeps, for every file number, the file read last
files_data(files) ==
    [n \in {files[i].file_number : i \in DOMAIN files} |->
        LET last == CHOOSE i \in DOMAIN files :
                        /\ files[i].file_number = n
                        /\ \A j \in DOMAIN files :
                               files[j].file_number = n => j <= i
        IN  files[last]]

\* recorded_scan_length = total_data_size / bytes_per_second
recorded_scan_length(files, resources, file_type) ==
    RatDiv(Float(total_data_size(files)),
           bytes_per_second(resources, file_type))

\* scan_length_ok with a fault: the tolerance is 2 seconds.
scan_length_ok_TwoSeconds(recorded, scanlen) ==
    RatLess(RatAbs(RatSub(recorded, scanlen)), Float(2))

\* abs(recorded_scan_length - scanlen) < 1.0
scan_length_ok(recorded, scanlen) ==
    RatLess(RatAbs(RatSub(recorded, scanlen)), Float(1))

\* obs_offset_ok with a fault: only the offset of the first file is compared.
obs_offset_ok_FirstFileOnly(file_number, per_file, curr_file) ==
    file_number = 0 => file_number * per_file = curr_file.obs_offset

\* file_number * bytes_per_file == curr_file.obs_offset
obs_offset_ok(file_number, per_file, curr_file) ==
    file_number * per_file = curr_file.obs_offset

\* if file_number < expected_num_files - 1:
\*     expected_data_size = bytes_per_file
\* else:
\*     expected_data_size = total_data_size - file_number * bytes_per_file
expected_data_size(file_number, num_files, per_file, total) ==
    IF file_number < num_files - 1
    THEN per_file
    ELSE total - file_number * per_file

AssertionError(assertion, file, expected, actual) ==
    [kind |-> "AssertionError", assertion |-> assertion, file |-> file,
     expected |-> expected, actual |-> actual]

\* for file_number in range(expected_num_files): from file_number on, up to
\* the first statement that raises
RECURSIVE check_files(_, _, _, _, _)
check_files(file_number, num_files, per_file, total, data) ==
    IF file_number >= num_files
    THEN [kind |-> "return"]
    ELSE IF file_number \notin DOMAIN data
    THEN \* curr_file = files_data[file_number]
         [kind |-> "KeyError", key |-> file_number]
    ELSE LET curr_file == data[file_number]
             size == expected_data_size(file_number, num_files, per_file,
                                        total)
         IN  IF ~obs_offset_ok(file_number, per_file, curr_file)
             THEN AssertionError("obs_offset", curr_file.name,
                                 file_number * per_file,
                                 curr_file.obs_offset)
             ELSE IF curr_file.data_size # size
             THEN AssertionError("data_size", curr_file.name, size,
                                 curr_file.data_size)
             ELSE check_files(file_number + 1, num_files, per_file, total,
                              data)

\* check_contiguous_files: what it raises, or that it returns
check_contiguous_files(scanlen, calculated_resources, file_type, files, seconds_per_file) ==
    LET num_files == expected_num_files(scanlen, calculated_resources,
                                        seconds_per_file)
        per_file == bytes_per_file(calculated_resources, file_type,
                                   seconds_per_file)
        data == files_data(files)
        recorded == recorded_scan_length(files, calculated_resources,
                                         file_type)
    IN  IF Cardinality(DOMAIN data) # num_files
        THEN \* assert len(files_data) == expected_num_files
             AssertionError("num_files", 0, num_files,
                            Cardinality(DOMAIN data))
        ELSE IF ~scan_length_ok(recorded, scanlen)
        THEN AssertionError("scan_length", 0, scanlen, recorded)
        ELSE check_files(0, num_files, per_file, total_data_size(files),
                         data)

(***************************************************************************)
(* The calls of check_contiguous_files                                     *)
(***************************************************************************)
\* SECONDS_PER_FILE of dada/dada_file_reader.py: the values it is given here
SecondsPerFile == {1, 10}

\* calculated_resources of a scan of 2 channels, 1 polarisation and 8 bits
\* per dimension, in packets of 4 samples (16 bytes) of packet_nchan
\* channels and buffers of 4 packets, sampled every tsamp microseconds.
Resources(tsamp, packet_nchan) ==
    [tsamp |-> Float(tsamp), nchan |-> 2, npol |-> 1, nbits |-> 8,
     ndim |-> NUM_DIMENSIONS, packet_nsamp |-> 4,
     packet_nchan |-> packet_nchan, resolution |-> 16,
     packets_per_buffer |-> 4,
     bytes_per_second |-> recv_bytes_per_second(2, 1, 8, Float(tsamp))]

\* 100, 128 and 320/3 bytes per second, in packets of 1 and of 2 channels
CalculatedResources ==
    {Resources(tsamp, packet_nchan) :
        tsamp \in {40000, 31250, 37500}, packet_nchan \in {1, 2}}

FileTypes == {"data", "weights"}

\* Largest number of files a recording is made of.
MaxFiles == 3

\* What is added to the duration of the recording to give scanlen, in
\* hundredths of a second.
DurationErrors == {-101, -100, -99, 0, 99, 100, 101}

\* The files of a contiguous recording of num files of per_file bytes, the
\* last one of last bytes; a file is named after its place in the directory.
Recording(num, per_file, last) ==
    [i \in 1..num |->
        [name |-> i, file_number |-> i - 1, obs_offset |-> (i - 1) * per_file,
         data_size |-> IF i < num THEN per_file ELSE last]]

\* What can be wrong with file i of a recording.
Faults ==
    [kind : {"none", "remove", "extra", "duplicate", "duplicate_empty",
             "obs_offset", "data_size", "file_number"},
     i : 1..MaxFiles, d : {-1, 1}]

\* The directory with the files f of a recording after the fault: file i is
\* missing; another file follows the last one; a copy of file i, or a file
\* without data that has the number of file i, is listed before (d = -1) or
\* after (d = 1) file i; the offset or the size of file i is d bytes off;
\* file i has the number after the last one.
Directory(f, per_file, fault) ==
    LET num == Len(f)
        i == fault.i
        copy == [f[i] EXCEPT !.name = num + 1,
                             !.data_size = IF fault.kind = "duplicate_empty"
                                           THEN 0 ELSE @]
    IN  CASE fault.kind = "none" -> f
          [] fault.kind = "remove" ->
                 SubSeq(f, 1, i - 1) \o SubSeq(f, i + 1, num)
          [] fault.kind = "extra" ->
                 Append(f, [name |-> num + 1, file_number |-> num,
                            obs_offset |-> num * per_file,
                            data_size |-> per_file])
          [] fault.kind \in {"duplicate", "duplicate_empty"} ->
                 IF fault.d < 0
                 THEN SubSeq(f, 1, i - 1) \o <<copy>> \o SubSeq(f, i, num)
                 ELSE SubSeq(f, 1, i) \o <<copy>> \o SubSeq(f, i + 1, num)
          [] fault.kind = "obs_offset" ->
                 [f EXCEPT ![i].obs_offset = @ + fault.d]
          [] fault.kind = "data_size" ->
                 [f EXCEPT ![i].data_size = @ + fault.d]
          [] fault.kind = "file_number" ->
                 [f EXCEPT ![i].file_number = num]

\* The calls for one stream of one scan recorded in num files.
ContiguousCallsOf(seconds_per_file, resources, file_type, num) ==
    LET per_file == bytes_per_file(resources, file_type, seconds_per_file)
        rate == bytes_per_second(resources, file_type)
    IN  {[op |-> "check_contiguous_files",
          SECONDS_PER_FILE |-> seconds_per_file,
          scanlen |-> RatAdd(RatDiv(Float((num - 1) * per_file + last), rate),
                             Rat(e, 100)),
          calculated_resources |-> resources,
          file_type |-> file_type,
          files |-> Directory(Recording(num, per_file, last), per_file,
                              fault)] :
            last \in {buffer_size(resources, file_type), per_file},
            e \in DurationErrors,
            fault \in {x \in Faults : x.i <= num}}

CheckContiguousFiles ==
    /\ result = Pending
    /\ result' = check_contiguous_files(call.scanlen,
                                        call.calculated_resources,
                                        call.file_type, call.files,
                                        call.SECONDS_PER_FILE)
    /\ UNCHANGED <<udpVars, proxyVars, utilVars, call>>

(***************************************************************************)
(* dada/dsp_data_analyser.py: check_weights_contain_dropped_packets.       *)
(* weights_files is the sequence of the dropped_packets lists of the       *)
(* *.dada files of the weights directory, in the order of glob.            *)
(***************************************************************************)
\* set(a_list)
Elements(list) == {list[i] : i \in DOMAIN list}

\* dropped_packets, after "dropped_packets.extend(file.dropped_packets)" for
\* every file
RECURSIVE dropped_packets(_)
dropped_packets(weights_files) ==
    IF weights_files = <<>> THEN <<>>
    ELSE dropped_packets(SubSeq(weights_files, 1, Len(weights_files) - 1))
             \o weights_files[Len(weights_files)]

\* contains_dropped_packets with a fault: the recorded packets have to be the
\* expected ones.
contains_dropped_packets_Equal(expected_dropped_packets, dropped) ==
    Elements(expected_dropped_packets) = Elements(dropped)

\* set(expected_dropped_packets).issubset(set(dropped_packets))
contains_dropped_packets(expected_dropped_packets, dropped) ==
    Elements(expected_dropped_packets) \subseteq Elements(dropped)

check_weights_contain_dropped_packets(expected_dropped_packets, weights_files) ==
    IF contains_dropped_packets(expected_dropped_packets,
                                dropped_packets(weights_files))
    THEN [kind |-> "return"]
    ELSE AssertionError("dropped_packets", 0, expected_dropped_packets,
                        dropped_packets(weights_files))

\* Largest packet number, longest list of expected packets, longest list of
\* packets of a file, largest number of weights files.
MaxPacket == 2
MaxExpected == 2
MaxDropped == 1
MaxWeightsFiles == 2

\* The lists of at most len packet numbers.
PacketLists(len) == UNION {[1..n -> 0..MaxPacket] : n \in 0..len}

CheckWeightsContainDroppedPackets ==
    /\ result = Pending
    /\ result' = check_weights_contain_dropped_packets(
                     call.expected_dropped_packets, call.weights_files)
    /\ UNCHANGED <<udpVars, proxyVars, utilVars, call>>

(***************************************************************************)
(* Part 3: the functions of common/ that map a scan request, a dict, to    *)
(* the parameters of RECV, SMRB and DSP.  A subscription of a key the      *)
(* request lacks raises KeyError.  A str made of pieces (an f-string) is   *)
(* the sequence of the pieces.                                             *)
(***************************************************************************)
\* str(x), kept as the value the string was made from
StrOf(x) == [str |-> x]

\* int(x) of a float: rounds towards zero
int(a) == IF a.num >= 0 THEN a.num \div a.den ELSE -((-a.num) \div a.den)

(***************************************************************************)
(* common/receive_util.py, the functions that compose                      *)
(* calculate_receive_packet_resources                                      *)
(***************************************************************************)
DEFAULT_COORD_MODE == "J2000"
DEFAULT_EQUINOX == 2000
DEFAULT_TRACKING_MODE == "TRACK"

\* The keys generate_recv_scan_request reads from the request before it
\* reads the coordinates, in the order of the dict display (lines 61 to 69)
RecvScanKeys ==
    <<"activation_time", "observer_id", "project_id", "pointing_id",
      "subarray_id", "source", "itrf", "coordinates">>

\* generate_recv_scan_request (itrf, a string joined from a list, is left
\* out)
generate_recv_scan_request(request_params) ==
    LET missing == FirstMissing(request_params, RecvScanKeys)
        coordinates == request_params.coordinates
        missing_crd == FirstMissing(coordinates, <<"ra", "dec">>)
        return ==
            [kind |-> "return",
             activation_time |-> request_params.activation_time,
             observer |-> request_params.observer_id,
             projid |-> request_params.project_id,
             pnt_id |-> request_params.pointing_id,
             subarray_id |-> StrOf(request_params.subarray_id),
             source |-> request_params.source,
             coord_md |-> DEFAULT_COORD_MODE,
             equinox |-> StrOf(IF "equinox" \in DOMAIN coordinates
                               THEN coordinates.equinox
                               ELSE Float(DEFAULT_EQUINOX)),
             stt_crd1 |-> coordinates.ra,
             stt_crd2 |-> coordinates.dec,
             trk_mode |-> DEFAULT_TRACKING_MODE,
             scanlen_max |-> int(request_params.max_scan_length)]
    IN  IF missing # 0
        THEN KeyError(RecvScanKeys[missing])
        ELSE IF missing_crd # 0
        THEN KeyError(<<"ra", "dec">>[missing_crd])
        ELSE IF "max_scan_length" \notin DOMAIN request_params
        THEN KeyError("max_scan_length")
        ELSE IF "test_vector_id" \in DOMAIN request_params
        THEN [test_vector |-> request_params.test_vector_id] @@ return
        ELSE return

\* The keys calculate_receive_common_resources reads from the request with
\* a subscription, in the order of the dict display (lines 136 to 148)
CommonKeys ==
    <<"udp_nsamp", "wt_nsamp", "udp_nchan", "centre_frequency",
      "receiver_id", "feed_polarization", "feed_handedness", "feed_angle",
      "feed_tracking_mode", "feed_position_angle", "receptors",
      "receptor_weights">>

\* calculate_receive_common_resources with a fault: udp_nsamp is read with
\* request_params.get("udp_nsamp", 32).
calculate_receive_common_resources_DefaultsNsamp(beam_id, request_params) ==
    LET recv_packet_resources ==
            calculate_receive_packet_resources(request_params)
        missing == FirstMissing(request_params, Tail(CommonKeys))
    IN  IF recv_packet_resources.kind # "return"
        THEN recv_packet_resources
        ELSE IF missing # 0
        THEN KeyError(Tail(CommonKeys)[missing])
        ELSE [nsubband |-> 1,
              udp_nsamp |-> IF "udp_nsamp" \in DOMAIN request_params
                            THEN request_params.udp_nsamp
                            ELSE 32,
              wt_nsamp |-> request_params.wt_nsamp,
              udp_nchan |-> request_params.udp_nchan,
              frequency |-> RatDiv(Float(request_params.centre_frequency),
                                   Float(MEGA_HERTZ)),
              frontend |-> request_params.receiver_id,
              fd_poln |-> request_params.feed_polarization,
              fd_hand |-> request_params.feed_handedness,
              fd_sang |-> request_params.feed_angle,
              fd_mode |-> request_params.feed_tracking_mode,
              fa_req |-> request_params.feed_position_angle,
              nant |-> Len(request_params.receptors),
              beam_id |-> StrOf(IF "timing_beam_id" \in DOMAIN request_params
                                THEN request_params.timing_beam_id
                                ELSE beam_id)]
                 @@ recv_packet_resources

\* calculate_receive_common_resources (antennas and ant_weights, strings
\* joined from lists, are left out)
calculate_receive_common_resources(beam_id, request_params) ==
    LET recv_packet_resources ==
            calculate_receive_packet_resources(request_params)
        missing == FirstMissing(request_params, CommonKeys)
    IN  IF recv_packet_resources.kind # "return"
        THEN recv_packet_resources
        ELSE IF missing # 0
        THEN KeyError(CommonKeys[missing])
        ELSE [nsubband |-> 1,
              udp_nsamp |-> request_params.udp_nsamp,
              wt_nsamp |-> request_params.wt_nsamp,
              udp_nchan |-> request_params.udp_nchan,
              frequency |-> RatDiv(Float(request_params.centre_frequency),
                                   Float(MEGA_HERTZ)),
              frontend |-> request_params.receiver_id,
              fd_poln |-> request_params.feed_polarization,
              fd_hand |-> request_params.feed_handedness,
              fd_sang |-> request_params.feed_angle,
              fd_mode |-> request_params.feed_tracking_mode,
              fa_req |-> request_params.feed_position_angle,
              nant |-> Len(request_params.receptors),
              beam_id |-> StrOf(IF "timing_beam_id" \in DOMAIN request_params
                                THEN request_params.timing_beam_id
                                ELSE beam_id)]
                 @@ recv_packet_resources

\* raise RuntimeError(f"Error in calculating RECV subband resources. {e}
\* was not found."): str(e) of a KeyError is the repr of the key, the key
\* between quotes
RuntimeError(e) ==
    [kind |-> "RuntimeError",
     message |-> <<"Error in calculating RECV subband resources. ",
                   "'", e.key, "'", " was not found.">>]

\* calculate_receive_subband_resources: the body of the try statement, in
\* the order in which it is evaluated, and its except clause
calculate_receive_subband_resources(beam_id, request_params, data_host, subband_udp_ports) ==
    LET first == <<"num_frequency_channels", "total_bandwidth">>
        missing == FirstMissing(request_params, first)
        nchan == request_params.num_frequency_channels
        bandwidth == request_params.total_bandwidth
        common == calculate_receive_common_resources(beam_id, request_params)
        frequency == RatDiv(Float(request_params.centre_frequency),
                            Float(MEGA_HERTZ))
    IN  IF missing # 0
        THEN RuntimeError(KeyError(first[missing]))
        ELSE IF common.kind = "KeyError"
        THEN RuntimeError(common)
        ELSE IF subband_udp_ports = <<>>
        THEN [kind |-> "IndexError"]
        ELSE [kind |-> "return",
              common |-> common,
              subbands |->
                  (1 :> [data_key |-> generate_data_key(beam_id, 1),
                         weights_key |-> generate_weights_key(beam_id, 1),
                         bandwidth |-> RatDiv(Float(bandwidth),
                                              Float(MEGA_HERTZ)),
                         nchan |-> nchan,
                         frequency |-> frequency,
                         start_channel |-> 0,
                         end_channel |-> nchan,
                         start_channel_out |-> 0,
                         end_channel_out |-> nchan,
                         nchan_out |-> nchan,
                         bandwidth_out |-> RatDiv(Float(bandwidth),
                                                  Float(MEGA_HERTZ)),
                         frequency_out |-> frequency,
                         data_host |-> data_host,
                         data_port |-> subband_udp_ports[1]])]

(***************************************************************************)
(* common/dsp_util.py                                                      *)
(***************************************************************************)
\* generate_dsp_scan_request: scanlen_max is
\* request_params.get("max_scan_length", 0.0)
generate_dsp_scan_request(request_params) ==
    LET recv_packet_resources ==
            calculate_receive_packet_resources(request_params)
    IN  IF recv_packet_resources.kind # "return"
        THEN recv_packet_resources
        ELSE [kind |-> "return",
              bytes_per_second |-> recv_packet_resources.bytes_per_second,
              scanlen_max |-> IF "max_scan_length" \in DOMAIN request_params
                              THEN request_params.max_scan_length
                              ELSE Float(0)]

(***************************************************************************)
(* common/smrb_util.py: calculate_smrb_subband_resources                   *)
(***************************************************************************)
SIZE_OF_FLOAT32_IN_BYTES == 4
HEADER_BUFFER_NBUFS == 8
HEADER_BUFFER_BUFSZ == 16384

\* The keys calculate_smrb_subband_resources reads from the request, in the
\* order in which it reads them (lines 96 to 101)
SmrbKeys ==
    <<"num_frequency_channels", "num_of_polarizations", "bits_per_sample",
      "udp_nsamp", "wt_nsamp">>

\* data_buffer_resolution = obsnchan * obsnpol * nbits // BITS_PER_BYTE
\*                          * udp_nsamp: * and // are applied left to right
data_buffer_resolution(obsnchan, obsnpol, nbits, udp_nsamp) ==
    ((obsnchan * obsnpol * nbits) \div BITS_PER_BYTE) * udp_nsamp

weights_buffer_resolution_OneScale(obsnchan, packet_nchan, wt_nweight) ==
    SIZE_OF_FLOAT32_IN_BYTES
        + ((obsnchan * WEIGHTS_NBITS) \div BITS_PER_BYTE) * wt_nweight

\* weights_buffer_resolution = (obsnchan // packet_nchan
\*     * SIZE_OF_FLOAT32_IN_BYTES) + obsnchan * WEIGHTS_NBITS
\*     // BITS_PER_BYTE * wt_nweight
weights_buffer_resolution(obsnchan, packet_nchan, wt_nweight) ==
    ((obsnchan \div packet_nchan) * SIZE_OF_FLOAT32_IN_BYTES)
        + ((obsnchan * WEIGHTS_NBITS) \div BITS_PER_BYTE) * wt_nweight

\* calculate_smrb_subband_resources
calculate_smrb_subband_resources(beam_id, request_params) ==
    LET frequency_band_config ==
            get_frequency_band_config(frequency_band_of(request_params))
        packet_nchan == frequency_band_config.value.packet_nchan
        packets_per_buffer == frequency_band_config.value.packets_per_buffer
        num_of_buffers == frequency_band_config.value.num_of_buffers
        missing == FirstMissing(request_params, SmrbKeys)
        obsnchan == request_params.num_frequency_channels
        obsnpol == request_params.num_of_polarizations
        nbits == request_params.bits_per_sample
        udp_nsamp == request_params.udp_nsamp
        wt_nsamp == request_params.wt_nsamp
        wt_nweight == udp_nsamp \div wt_nsamp
    IN  IF frequency_band_config.kind # "return"
        THEN frequency_band_config
        ELSE IF missing # 0
        THEN KeyError(SmrbKeys[missing])
        ELSE [kind |-> "return",
              value |->
                  (1 :> [data_key |-> generate_data_key(beam_id, 1),
                         weights_key |-> generate_weights_key(beam_id, 1),
                         hb_nbufs |-> HEADER_BUFFER_NBUFS,
                         hb_bufsz |-> HEADER_BUFFER_BUFSZ,
                         db_nbufs |-> num_of_buffers,
                         db_bufsz |-> packets_per_buffer
                                          * data_buffer_resolution(
                                                obsnchan, obsnpol, nbits,
                                                udp_nsamp),
                         wb_nbufs |-> num_of_buffers,
                         wb_bufsz |-> packets_per_buffer
                                          * weights_buffer_resolution(
                                                obsnchan, packet_nchan,
                                                wt_nweight)])]

(***************************************************************************)
(* One call of a function of common/ or dada/: the generator is not used,  *)
(* the call has been made and the function called makes its step.          *)
(***************************************************************************)
KeyInit == UdpInit /\ ProxyInit /\ UtilInit /\ call \in KeyCalls /\ result = Pending
KeySpec == KeyInit /\ [][GenerateKeys]_vars

RecvInit == UdpInit /\ ProxyInit /\ UtilInit /\ call \in RecvCalls /\ result = Pending
RecvSpec == RecvInit /\ [][CalculateReceivePacketResources]_vars

\* The calls of check_contiguous_files: a scan has a length above 0.
ContiguousInit ==
    /\ UdpInit
    /\ ProxyInit
    /\ UtilInit
    /\ call \in {c \in UNION {ContiguousCallsOf(seconds_per_file, resources,
                                                file_type, num) :
                                  seconds_per_file \in SecondsPerFile,
                                  resources \in CalculatedResources,
                                  file_type \in FileTypes,
                                  num \in 1..MaxFiles} :
                    c.scanlen.num > 0}
    /\ result = Pending
ContiguousSpec == ContiguousInit /\ [][CheckContiguousFiles]_vars

DroppedInit ==
    /\ UdpInit
    /\ ProxyInit
    /\ UtilInit
    /\ call \in [op : {"check_weights_contain_dropped_packets"},
                 expected_dropped_packets : PacketLists(MaxExpected),
                 weights_files : UNION {[1..n -> PacketLists(MaxDropped)] :
                                            n \in 0..MaxWeightsFiles}]
    /\ result = Pending
DroppedSpec == DroppedInit /\ [][CheckWeightsContainDroppedPackets]_vars

(***************************************************************************)
(* One call of a function that maps a scan request.                        *)
(***************************************************************************)
\* The request ScanConfigGenerator makes for Low from the CSP example
\* (scan_config_generator.py, lines 281 to 310): the keys the functions of
\* common/ read, without frequency_band and test_vector_id.
BaseRequest ==
    [num_frequency_channels |-> 432,
     num_of_polarizations |-> 2,
     bits_per_sample |-> 32,
     oversampling_ratio |-> <<4, 3>>,
     total_bandwidth |-> 1562500,
     udp_nsamp |-> 32,
     wt_nsamp |-> 32,
     udp_nchan |-> 24,
     centre_frequency |-> 1000000000,
     receiver_id |-> "receiver3",
     feed_polarization |-> "LIN",
     feed_handedness |-> 1,
     feed_angle |-> Float(10),
     feed_tracking_mode |-> "FA",
     feed_position_angle |-> Float(0),
     receptors |-> <<"receptor1">>,
     receptor_weights |-> <<Float(1)>>,
     timing_beam_id |-> "7",
     max_scan_length |-> Rat(125, 10),
     activation_time |-> "2022-01-19T23:07:45Z",
     observer_id |-> "jdoe",
     project_id |-> "project1",
     pointing_id |-> "pointing1",
     subarray_id |-> "subarray42",
     source |-> "J1921+2153",
     itrf |-> <<5109360, 2006852, -3238948>>,
     coordinates |-> [equinox |-> Float(2000), ra |-> "19:21:44.815",
                      dec |-> "21:53:02.400"]]

\* The values of frequency_band: the keys of the table, and keys it lacks
FrequencyBands ==
    {"low", "1", "2", "3", "4", "5a", "5b",
     "5", "6", "0", "Low", "LOW", "mid", "LowPST", "MidPSTBand1", ""}

\* The requests of a call: the base request, with a test vector, with every
\* frequency band, without one of its keys, without one of the keys of its
\* coordinates.
Requests ==
    {BaseRequest, Override(BaseRequest, [test_vector_id |-> "vector1"])}
        \cup {Override(BaseRequest, [frequency_band |-> band]) :
                  band \in FrequencyBands}
        \cup {Without(BaseRequest, key) : key \in DOMAIN BaseRequest}
        \cup {Override(BaseRequest,
                       [coordinates |-> Without(BaseRequest.coordinates, key)]) :
                  key \in DOMAIN BaseRequest.coordinates}

\* The requests of a call of calculate_smrb_subband_resources also vary the
\* numbers the sizes of the buffers are made of, all positive.
SmrbRequests ==
    Requests
        \cup {Override(BaseRequest, shape) :
                  shape \in [num_frequency_channels : {1, 3, 24, 185, 432},
                             num_of_polarizations : {1, 2},
                             bits_per_sample : {4, 8, 16, 32},
                             udp_nsamp : {1, 4, 32},
                             wt_nsamp : {1, 4, 32}]}
        \cup {Override(BaseRequest, shape) :
                  shape \in [frequency_band : {"1", "3"},
                             num_frequency_channels : {185, 3700},
                             num_of_polarizations : {1, 2},
                             bits_per_sample : {4, 8, 16, 32},
                             udp_nsamp : {4},
                             wt_nsamp : {4}]}

BeamIds == {1, 16}

RequestCalls ==
    [op : {"get_frequency_band_config"},
     frequency_band : {<<>>} \cup {<<band>> : band \in FrequencyBands}]
        \cup [op : {"calculate_smrb_subband_resources"},
              beam_id : BeamIds, request_params : SmrbRequests]
        \cup [op : {"generate_dsp_scan_request", "generate_recv_scan_request"},
              request_params : Requests]
        \cup [op : {"calculate_receive_subband_resources"},
              beam_id : BeamIds, request_params : Requests,
              data_host : {"127.0.0.1"},
              subband_udp_ports : {<<>>, <<32080>>, <<32080, 32081>>}]

GetFrequencyBandConfig ==
    /\ call.op = "get_frequency_band_config"
    /\ result = Pending
    /\ result' = get_frequency_band_config(call.frequency_band)
    /\ UNCHANGED <<udpVars, proxyVars, utilVars, call>>

CalculateSmrbSubbandResources ==
    /\ call.op = "calculate_smrb_subband_resources"
    /\ result = Pending
    /\ result' = calculate_smrb_subband_resources(call.beam_id,
                                                  call.request_params)
    /\ UNCHANGED <<udpVars, proxyVars, utilVars, call>>

GenerateDspScanRequest ==
    /\ call.op = "generate_dsp_scan_request"
    /\ result = Pending
    /\ result' = generate_dsp_scan_request(call.request_params)
    /\ UNCHANGED <<udpVars, proxyVars, utilVars, call>>

GenerateRecvScanRequest ==
    /\ call.op = "generate_recv_scan_request"
    /\ result = Pending
    /\ result' = generate_recv_scan_request(call.request_params)
    /\ UNCHANGED <<udpVars, proxyVars, utilVars, call>>

CalculateReceiveSubbandResources ==
    /\ call.op = "calculate_receive_subband_resources"
    /\ result = Pending
    /\ result' = calculate_receive_subband_resources(
                     call.beam_id, call.request_params, call.data_host,
                     call.subband_udp_ports)
    /\ UNCHANGED <<udpVars, proxyVars, utilVars, call>>

RequestInit == UdpInit /\ ProxyInit /\ UtilInit /\ call \in RequestCalls /\ result = Pending

RequestNext ==
    \/ GetFrequencyBandConfig
    \/ CalculateSmrbSubbandResources
    \/ GenerateDspScanRequest
    \/ GenerateRecvScanRequest
    \/ CalculateReceiveSubbandResources

RequestSpec == RequestInit /\ [][RequestNext]_vars

(***************************************************************************)
(* Part 4: udp_gen/udp_data_generator.py, create_udp_data_generator and    *)
(* the validators of the parameters of a data generator.  A parameter      *)
(* value is a Python object, kept as its type and its value; an assertion  *)
(* that fails raises AssertionError with the message of the assert         *)
(* statement, the sequence of the pieces of its f-string.                  *)
(***************************************************************************)
PyFloat(x) == [type |-> "float", float |-> x]
PyInt(n) == [type |-> "int", int |-> n]
PyBool(b) == [type |-> "bool", bool |-> b]
PyStr(str) == [type |-> "str", str |-> str]
PyNone == [type |-> "NoneType"]

\* isinstance(v, (int, float)): bool is a subclass of int
isinstance_int_float(v) == v.type \in {"int", "float", "bool"}

\* float(v) of an int, a float or a bool
float(v) ==
    CASE v.type = "float" -> v.float
      [] v.type = "int" -> Float(v.int)
      [] v.type = "bool" -> Float(IF v.bool THEN 1 ELSE 0)

\* A validator that returns
Valid == [kind |-> "return"]

\* An assert statement that fails
Assertion(message) == [kind |-> "AssertionError", message |-> message]

\* The outcome of two statements executed in order: the second is not
\* executed when the first raises
Then(first, second) == IF first.kind # "return" THEN first ELSE second

\* The outcome of statements executed in order: the first that raises
FirstFailure(outcomes) ==
    IF \A i \in DOMAIN outcomes : outcomes[i].kind = "return"
    THEN Valid
    ELSE outcomes[CHOOSE i \in DOMAIN outcomes :
                      /\ outcomes[i].kind # "return"
                      /\ \A j \in 1..(i - 1) : outcomes[j].kind = "return"]

\* _assert_required with a fault: nothing is asserted.
_assert_required_Never(key, data_generator, kwargs) == Valid

\* assert key in kwargs, f"Expected '{key}' set when data_generator is
\* '{data_generator}'"
_assert_required(key, data_generator, kwargs) ==
    IF key \in DOMAIN kwargs
    THEN Valid
    ELSE Assertion(<<"Expected '", key, "' set when data_generator is '",
                     data_generator, "'">>)

\* _assert_float with a fault: the type of the value is not asserted.
_assert_float_AnyType(key, data_generator, required, kwargs) ==
    IF required THEN _assert_required(key, data_generator, kwargs) ELSE Valid

\* if required: _assert_required(...); if key in kwargs: assert
\* isinstance(kwargs[key], (int, float)), f"Expected '{key}' to be a float
\* when data_generator is '{data_generator}'"
_assert_float(key, data_generator, required, kwargs) ==
    FirstFailure(<<
        IF required THEN _assert_required(key, data_generator, kwargs)
        ELSE Valid,
        IF key \in DOMAIN kwargs /\ ~isinstance_int_float(kwargs[key])
        THEN Assertion(<<"Expected '", key,
                         "' to be a float when data_generator is '",
                         data_generator, "'">>)
        ELSE Valid>>)

\* _assert_min_value with a fault: the bound is always inclusive.
_assert_min_value_Inclusive(key, data_generator, min_value, inclusive, kwargs) ==
    IF key \in DOMAIN kwargs /\ RatLess(float(kwargs[key]), min_value)
    THEN Assertion(<<"Expected '", key, "' to be greater or equal to ",
                     StrOf(min_value), " when data_generator is '",
                     data_generator, "'">>)
    ELSE Valid

\* _assert_min_value: min_value <= value when inclusive, min_value < value
\* otherwise, for the value of a key that is in kwargs
_assert_min_value(key, data_generator, min_value, inclusive, kwargs) ==
    IF key \notin DOMAIN kwargs
    THEN Valid
    ELSE IF inclusive
    THEN IF RatLess(float(kwargs[key]), min_value)
         THEN Assertion(<<"Expected '", key, "' to be greater or equal to ",
                          StrOf(min_value), " when data_generator is '",
                          data_generator, "'">>)
         ELSE Valid
    ELSE IF ~RatLess(min_value, float(kwargs[key]))
         THEN Assertion(<<"Expected '", key, "' to be greater than ",
                          StrOf(min_value), " when data_generator is '",
                          data_generator, "'">>)
         ELSE Valid

_validate_sine_wave_generator(data_generator, kwargs) ==
    _assert_float("sinusoid_freq", data_generator, TRUE, kwargs)

_validate_gaussian_noise_generator(data_generator, kwargs) ==
    Then(_assert_float("normal_dist_mean", data_generator, FALSE, kwargs),
    Then(_assert_float("normal_dist_stddev", data_generator, FALSE, kwargs),
    Then(_assert_min_value("normal_dist_stddev", data_generator, Float(0),
                           FALSE, kwargs),
    Then(_assert_float("normal_dist_red_stddev", data_generator, FALSE,
                       kwargs),
         _assert_min_value("normal_dist_red_stddev", data_generator,
                           Float(0), FALSE, kwargs)))))

\* The fields of SquareWaveConfig, in the order in which
\* _validate_square_wave_generator asserts that they are floats
SquareWaveKeys ==
    <<"cal_off_intensity", "cal_on_intensity", "cal_on_pol_0_intensity",
      "cal_on_pol_1_intensity", "cal_on_chan_0_intensity",
      "cal_on_chan_n_intensity", "cal_on_pol_0_chan_0_intensity",
      "cal_on_pol_0_chan_n_intensity", "cal_on_pol_1_chan_0_intensity",
      "cal_on_pol_1_chan_n_intensity", "cal_duty_cycle", "calfreq">>

\* The intensities at channel 0 and at channel n that must be given
\* together, in the order of the if statements of lines 92 to 108: when the
\* first of a pair is in kwargs the second is required
RequiredWith ==
    <<<<"cal_on_chan_0_intensity", "cal_on_chan_n_intensity">>,
      <<"cal_on_chan_n_intensity", "cal_on_chan_0_intensity">>,
      <<"cal_on_pol_0_chan_0_intensity", "cal_on_pol_0_chan_n_intensity">>,
      <<"cal_on_pol_0_chan_n_intensity", "cal_on_pol_0_chan_0_intensity">>,
      <<"cal_on_pol_1_chan_0_intensity", "cal_on_pol_1_chan_n_intensity">>,
      <<"cal_on_pol_1_chan_n_intensity", "cal_on_pol_1_chan_0_intensity">>>>

_validate_square_wave_generator(data_generator, kwargs) ==
    Then(FirstFailure(
             [i \in 1..Len(SquareWaveKeys) |->
                 _assert_float(SquareWaveKeys[i], data_generator, FALSE,
                               kwargs)]
             \o [i \in 1..Len(RequiredWith) |->
                    IF RequiredWith[i][1] \in DOMAIN kwargs
                    THEN _assert_required(RequiredWith[i][2], data_generator,
                                          kwargs)
                    ELSE Valid]),
    Then(IF "cal_duty_cycle" \in DOMAIN kwargs
                /\ ~(/\ RatLess(Float(0), float(kwargs.cal_duty_cycle))
                     /\ RatLess(float(kwargs.cal_duty_cycle), Float(1)))
         THEN Assertion(<<"Expected 'cal_duty_cycle' to be within ",
                          "following range (0.0, 1.0) when ",
                          "data_generator is 'SquareWave'">>)
         ELSE Valid,
         IF "calfreq" \in DOMAIN kwargs
         THEN _assert_min_value("calfreq", data_generator, Float(0), FALSE,
                                kwargs)
         ELSE Valid))

\* The keys of VALIDATORS
VALIDATORS == {"Sine", "GaussianNoise", "SquareWave", "Random"}

\* VALIDATORS[data_generator](data_generator=data_generator, **params)
validate(data_generator, params) ==
    CASE data_generator = "Sine" ->
             _validate_sine_wave_generator(data_generator, params)
      [] data_generator = "GaussianNoise" ->
             _validate_gaussian_noise_generator(data_generator, params)
      [] data_generator = "SquareWave" ->
             _validate_square_wave_generator(data_generator, params)
      [] data_generator = "Random" -> Valid

\* {k: v for (k, v) in params.items() if v is not None}
without_none(params) ==
    [k \in {key \in DOMAIN params : params[key] # PyNone} |-> params[k]]

\* create_udp_data_generator: generator_params is <<>> for None and
\* <<dataclasses.asdict(generator_params)>> otherwise; data_generator is
\* <<>> for None and <<name>> otherwise
create_udp_data_generator(scan_resources, scan_id, scanlen, channel_block_configuration, data_generator, generator_params, kwargs) ==
    LET data_host ==
            channel_block_configuration.channel_blocks[1].destination_host
        data_port ==
            channel_block_configuration.channel_blocks[1].destination_port
        params ==
            Override(IF generator_params = <<>>
                     THEN <<>>
                     ELSE without_none(generator_params[1]),
                     kwargs)
        validation ==
            IF data_generator = <<>>
            THEN Valid
            ELSE IF data_generator[1] \notin VALIDATORS
            THEN Assertion(<<"Unknown data generator ", data_generator[1]>>)
            ELSE validate(data_generator[1], params)
        environment ==
            Override(Override(scan_resources,
                              [data_host |-> data_host,
                               data_port |-> data_port,
                               scan_id |-> scan_id,
                               scanlen_max |-> scanlen,
                               data_generator |-> data_generator]),
                     params)
    IN  IF validation.kind # "return"
        THEN validation
        ELSE [kind |-> "return", environment |-> environment,
              scanlen |-> scanlen]

\* The data generators of a call: None, the four that have a validator, and
\* one that has none
DataGenerators ==
    {<<>>, <<"Random">>, <<"Sine">>, <<"GaussianNoise">>, <<"SquareWave">>,
     <<"Triangle">>}

\* The fields of the config class of a data generator
Fields(data_generator) ==
    CASE data_generator = <<"Sine">> -> {"sinusoid_freq"}
      [] data_generator = <<"GaussianNoise">> ->
             {"normal_dist_mean", "normal_dist_stddev",
              "normal_dist_red_stddev"}
      [] data_generator = <<"SquareWave">> -> Elements(SquareWaveKeys)
      [] OTHER -> {}

\* The values of a parameter: inside its range, on a bound, outside, of a
\* numeric type other than float, and not numeric
Values ==
    {PyFloat(Rat(1, 2)), PyFloat(Float(0)), PyFloat(Float(1)),
     PyFloat(Float(-1)), PyInt(2), PyBool(TRUE), PyStr("this is invalid")}

\* Largest number of parameters given to a generator in a call
MaxParams == 2

\* dataclasses.asdict of the config of the data generator made with the
\* given fields: a field that is not given is None
Config(data_generator, given) ==
    [field \in Fields(data_generator) |->
        IF field \in DOMAIN given THEN given[field] ELSE PyNone]

\* The keyword arguments a call may give: the fields of the config of the
\* data generator, two parameters when it has no config
KwargKeys(data_generator) ==
    IF Fields(data_generator) = {}
    THEN {"sinusoid_freq", "calfreq"}
    ELSE Fields(data_generator)

\* A call of create_udp_data_generator, for one scan and one channel block
CreateCall(data_generator, generator_params, kwargs) ==
    [op |-> "create_udp_data_generator",
     scan_resources |-> [nchan |-> 432],
     scan_id |-> 42,
     scanlen |-> 10,
     channel_block_configuration |->
         [channel_blocks |-> <<[destination_host |-> "127.0.0.1",
                                destination_port |-> 32080]>>],
     data_generator |-> data_generator,
     generator_params |-> generator_params,
     kwargs |-> kwargs]

CreateUdpDataGenerator ==
    /\ result = Pending
    /\ result' = create_udp_data_generator(
                     call.scan_resources, call.scan_id, call.scanlen,
                     call.channel_block_configuration, call.data_generator,
                     call.generator_params, call.kwargs)
    /\ UNCHANGED <<udpVars, proxyVars, utilVars, call>>

\* The calls of create_udp_data_generator: at most MaxParams parameters are
\* given as keyword arguments or as a config, or one parameter is given as
\* a config and one as a keyword argument.
CreateInit ==
    /\ UdpInit
    /\ ProxyInit
    /\ UtilInit
    /\ \E data_generator \in DataGenerators :
           \/ \E given \in SUBSET KwargKeys(data_generator) :
                  /\ Cardinality(given) <= MaxParams
                  /\ \E kwargs \in [given -> Values] :
                         call = CreateCall(data_generator, <<>>, kwargs)
           \/ \E given \in SUBSET Fields(data_generator) :
                  /\ Fields(data_generator) # {}
                  /\ Cardinality(given) <= MaxParams
                  /\ \E fields \in [given -> Values] :
                         call = CreateCall(
                                    data_generator,
                                    <<Config(data_generator, fields)>>, <<>>)
           \/ \E field, key \in Fields(data_generator) :
                  \E value, other \in Values :
                      call = CreateCall(
                                 data_generator,
                                 <<Config(data_generator, field :> value)>>,
                                 key :> other)
    /\ result = Pending

CreateSpec == CreateInit /\ [][CreateUdpDataGenerator]_vars

(***************************************************************************)
(* Properties of check_contiguous_files                                    *)
(***************************************************************************)
\* bytes_per_file and expected_num_files of the call, and the sum of the
\* data sizes of its files
PerFile ==
    bytes_per_file(call.calculated_resources, call.file_type,
                   call.SECONDS_PER_FILE)
NumFiles ==
    expected_num_files(call.scanlen, call.calculated_resources,
                       call.SECONDS_PER_FILE)
RecordedTotal == total_data_size(call.files)

\* recorded_total_bytes / bytes_per_second - scanlen
DurationError ==
    RatSub(recorded_scan_length(call.files, call.calculated_resources,
                                call.file_type),
           call.scanlen)

\* The places in the directory of the files with number n.
FilesNumbered(n) ==
    {i \in DOMAIN call.files : call.files[i].file_number = n}

\* File i has the offset of its number and, unless its number is the last
\* one, the full size.
FileInPlace(i) ==
    LET file == call.files[i]
    IN  /\ file.obs_offset = file.file_number * PerFile
        /\ file.file_number < NumFiles - 1 => file.data_size = PerFile

\* The directory holds expected_num_files files, numbered from 0 on.
FilesNumberedFromZero ==
    /\ Len(call.files) = NumFiles
    /\ \A n \in 0..(NumFiles - 1) : FilesNumbered(n) # {}

\* Everything except the duration is as the check wants it.
OtherwiseConsistent ==
    /\ FilesNumberedFromZero
    /\ \A i \in DOMAIN call.files : FileInPlace(i)

\* C12: when the files are otherwise consistent, a recording whose duration
\* (recorded_total_bytes / bytes_per_second) is 0.99 s shorter or longer than
\* scanlen is accepted, and one that is 1.01 s shorter or longer is rejected
\* by the assertion on the scan length.
C12_ScanLengthWithinOneSecond ==
    (Done("check_contiguous_files") /\ OtherwiseConsistent)
        => /\ RatAbs(DurationError) = Rat(99, 100) => result.kind = "return"
           /\ RatAbs(DurationError) = Rat(101, 100)
                  => /\ result.kind = "AssertionError"
                     /\ result.assertion = "scan_length"

\* C12 witness: a recording in three consistent files that is 0.99 s longer
\* than scanlen was accepted.
C12_Witness ==
    /\ Done("check_contiguous_files") /\ OtherwiseConsistent
    /\ Len(call.files) = 3
    /\ DurationError = Rat(99, 100)
    /\ result.kind = "return"

\* C13: the check passes only if the number of files in the directory is
\* expected_num_files; with fewer files, more files or extra files that share
\* a file_number with another file it fails.
C13_NumberOfFilesIsExpected ==
    (Done("check_contiguous_files") /\ result.kind = "return")
        => Len(call.files) = NumFiles

\* The offset of file i is one byte off, and nothing else is wrong up to it.
OnlyOffsetOffByOne(i) ==
    /\ FilesNumberedFromZero
    /\ RatLess(RatAbs(DurationError), Float(1))
    /\ Abs(call.files[i].obs_offset - call.files[i].file_number * PerFile) = 1
    /\ \A j \in DOMAIN call.files \ {i} : FileInPlace(j)

\* C14: the check passes only if for every i in 0..expected_num_files-1 a
\* file numbered i has obs_offset = i * bytes_per_file; when the offset of one
\* file is one byte off, the check fails with the assertion on obs_offset,
\* which names that file and carries the expected and the actual offset.
C14_ObsOffsetsAreContiguous ==
    Done("check_contiguous_files")
        => /\ result.kind = "return"
                  => \A n \in 0..(NumFiles - 1) :
                         \E i \in FilesNumbered(n) :
                             call.files[i].obs_offset = n * PerFile
           /\ \A i \in DOMAIN call.files :
                  OnlyOffsetOffByOne(i)
                      => result = AssertionError(
                                      "obs_offset", call.files[i].name,
                                      call.files[i].file_number * PerFile,
                                      call.files[i].obs_offset)

\* C14 witness: file 1 of 3 is one byte off, and the check failed with the
\* assertion that names it.
C14_Witness ==
    /\ Done("check_contiguous_files")
    /\ Len(call.files) = 3
    /\ \E i \in FilesNumbered(1) :
           /\ OnlyOffsetOffByOne(i)
           /\ result.kind = "AssertionError"
           /\ result.assertion = "obs_offset"
           /\ result.file = call.files[i].name

\* C15: the check passes only if every file except the last has data_size =
\* bytes_per_file and the last file has data_size = recorded_total_bytes -
\* (expected_num_files - 1) * bytes_per_file.
C15_DataSizesAreFull ==
    (Done("check_contiguous_files") /\ result.kind = "return")
        => \A i \in DOMAIN call.files :
               call.files[i].data_size
                   = IF call.files[i].file_number < NumFiles - 1
                     THEN PerFile
                     ELSE RecordedTotal - (NumFiles - 1) * PerFile

\* C16: for resources with bytes_per_second * SECONDS_PER_FILE >= 1 and
\* positive packets_per_buffer and resolution, bytes_per_file of the stream
\* is k times the stream's buffer size (packets_per_buffer times the
\* stream's resolution) for an integer k >= 1, and for the data stream it is
\* the smallest such multiple that is not below
\* floor(bytes_per_second * SECONDS_PER_FILE).
C16_BytesPerFileIsWholeBuffers ==
    Done("check_contiguous_files")
        => LET resources == call.calculated_resources
               per_second == RatMul(resources.bytes_per_second,
                                    Float(call.SECONDS_PER_FILE))
               buffer == buffer_size(resources, call.file_type)
           IN  (/\ ~RatLess(per_second, Float(1))
                /\ resources.packets_per_buffer > 0
                /\ resources.resolution > 0)
                   => /\ PerFile % buffer = 0
                      /\ PerFile \div buffer >= 1
                      /\ call.file_type = "data"
                             => /\ PerFile >= Floor(per_second)
                                /\ PerFile - buffer < Floor(per_second)

\* C16 witness: a check of a data stream whose 1066 bytes per file
\* (10 s of 320/3 bytes per second) were rounded up to 17 buffers of 64 bytes.
C16_Witness ==
    /\ Done("check_contiguous_files")
    /\ call.file_type = "data"
    /\ Floor(RatMul(call.calculated_resources.bytes_per_second,
                    Float(call.SECONDS_PER_FILE))) = 1066
    /\ PerFile = 17 * 64

\* The files are those of a contiguous recording of the weights of packets
\* packets per file in stride bytes per packet, as long as scanlen.
ContiguousWeights(packets, stride) ==
    /\ call.file_type = "weights"
    /\ Len(call.files) = NumFiles
    /\ \A i \in DOMAIN call.files :
           /\ call.files[i].file_number = i - 1
           /\ call.files[i].obs_offset = (i - 1) * packets * stride
           /\ i < Len(call.files)
                  => call.files[i].data_size = packets * stride
    /\ DurationError = Float(0)

\* C17: for the weights stream the check uses wt_resolution = nchan * 2 +
\* (nchan // packet_nchan) * 4, bytes_per_second scaled by wt_resolution /
\* resolution, buffer_size = packets_per_buffer * wt_resolution and
\* bytes_per_file = (bytes_per_file of the data / resolution) *
\* wt_resolution: a data file and a weights file hold the same number of
\* packets, and a contiguous recording of weights in files of that size
\* passes.
C17_WeightsUseTheirOwnResolution ==
    (Done("check_contiguous_files") /\ call.file_type = "weights")
        => LET resources == call.calculated_resources
               stride == resources.nchan * 2
                             + (resources.nchan \div resources.packet_nchan) * 4
               data_per_file == bytes_per_file(resources, "data",
                                               call.SECONDS_PER_FILE)
               packets == data_per_file \div resources.resolution
           IN  /\ wt_resolution(resources) = stride
               /\ bytes_per_second(resources, "weights")
                      = RatMul(resources.bytes_per_second,
                               Rat(stride, resources.resolution))
               /\ buffer_size(resources, "weights")
                      = resources.packets_per_buffer * stride
               /\ PerFile = packets * stride
               /\ data_per_file = packets * resources.resolution
               /\ ContiguousWeights(packets, stride) => result.kind = "return"

\* C17 witness: a contiguous recording of weights in three files of 64
\* packets of 12 bytes (2 channels in packets of 1 channel; the data of a
\* packet are 16 bytes) has passed.
C17_Witness ==
    /\ Done("check_contiguous_files")
    /\ ContiguousWeights(64, 12)
    /\ PerFile = 64 * 12
    /\ Len(call.files) = 3
    /\ result.kind = "return"

\* C38: when check_contiguous_files passes, the data_size of every file,
\* the last one included, is at most bytes_per_file.
C38_NoFileExceedsBytesPerFile ==
    (Done("check_contiguous_files") /\ result.kind = "return")
        => \A i \in DOMAIN call.files : call.files[i].data_size <= PerFile

(***************************************************************************)
(* Properties of check_weights_contain_dropped_packets                     *)
(***************************************************************************)
\* C18: the check passes if and only if every expected packet is in the
\* dropped_packets list of some weights file: dropped packets that are not
\* expected never make it fail, an expected packet that no file lists always
\* does.
C18_ExpectedDropsAreRecorded ==
    Done("check_weights_contain_dropped_packets")
        => (result.kind = "return"
                <=> \A k \in DOMAIN call.expected_dropped_packets :
                        \E f \in DOMAIN call.weights_files :
                            \E j \in DOMAIN call.weights_files[f] :
                                call.weights_files[f][j]
                                    = call.expected_dropped_packets[k])

\* C18 witness: packets 1 and 0 were expected; the first file lists packet
\* 0, the second one packet 1, and the check has passed.
C18_Witness ==
    /\ Done("check_weights_contain_dropped_packets")
    /\ call.expected_dropped_packets = <<1, 0>>
    /\ call.weights_files = <<(<<0>>), <<1>>>>
    /\ result.kind = "return"

(***************************************************************************)
(* Properties of generate_data_key and generate_weights_key                *)
(***************************************************************************)
\* C19: for a beam id in 0..255 and a subband id in 1..9 each key has exactly
\* 4 characters: the beam id as 2 lowercase hexadecimal digits, padded with
\* a zero, the digit of the subband, and "0" for the data or "2" for the
\* weights, so that the two keys differ in the last character only; the keys
\* of beam 1, subband 1 are "0110" and "0112".
C19_KeysAreFourCharacters ==
    (Done("generate_keys") /\ call.beam_id \in 0..255
                           /\ call.subband_id \in 1..9)
        => LET hex == <<"0", "1", "2", "3", "4", "5", "6", "7", "8", "9",
                        "a", "b", "c", "d", "e", "f">>
               beam == <<hex[(call.beam_id \div 16) + 1],
                         hex[(call.beam_id % 16) + 1]>>
               subband == <<hex[call.subband_id + 1]>>
           IN  /\ result.data_key = beam \o subband \o <<"0">>
               /\ result.weights_key = beam \o subband \o <<"2">>
               /\ Len(result.data_key) = 4 /\ Len(result.weights_key) = 4
               /\ \A i \in 1..3 : result.data_key[i] = result.weights_key[i]
               /\ result.data_key[4] # result.weights_key[4]
               /\ (call.beam_id = 1 /\ call.subband_id = 1)
                      => /\ result.data_key = <<"0", "1", "1", "0">>
                         /\ result.weights_key = <<"0", "1", "1", "2">>

\* C19 witness: the keys of beam 10, subband 9 are "0a90" and "0a92".
C19_Witness ==
    /\ Done("generate_keys")
    /\ call.beam_id = 10 /\ call.subband_id = 9
    /\ result.data_key = <<"0", "a", "9", "0">>
    /\ result.weights_key = <<"0", "a", "9", "2">>

(***************************************************************************)
(* Properties of calculate_receive_packet_resources                        *)
(***************************************************************************)
\* C20: the function returns nbits = bits_per_sample / 2, ndim = 2, tsamp =
\* nchan * den / (bandwidth in MHz * num) microseconds for the oversampling
\* ratio num/den, and bytes_per_second = nchan * npol * nbits * ndim / 8 *
\* 10^6 / tsamp (stated here as: the bytes of tsamp microseconds are those of
\* one sample of every channel); for 432 channels, 2 polarisations, 32 bits
\* per sample, 1562500 Hz and the ratio 4/3, tsamp = 207.36 and
\* bytes_per_second = 50000000/3, in exact arithmetic.
C20_ReceivePacketResources ==
    Done("calculate_receive_packet_resources")
        => LET nchan == call.num_frequency_channels
               npol == call.num_of_polarizations
               num == call.oversampling_ratio[1]
               den == call.oversampling_ratio[2]
               megahertz == Rat(call.total_bandwidth, 1000000)
           IN  /\ 2 * result.nbits = call.bits_per_sample
               /\ result.ndim = 2
               /\ result.tsamp = RatDiv(Float(nchan * den),
                                        RatMul(megahertz, Float(num)))
               /\ RatMul(result.bytes_per_second,
                         RatDiv(result.tsamp, Float(1000000)))
                      = Rat(nchan * npol * result.nbits * result.ndim, 8)
               /\ (/\ nchan = 432 /\ npol = 2 /\ call.bits_per_sample = 32
                   /\ call.total_bandwidth = 1562500
                   /\ num = 4 /\ den = 3)
                      => /\ result.tsamp = Rat(20736, 100)
                         /\ result.bytes_per_second = Rat(50000000, 3)

\* C20 witness: the resources of the request of ScanConfigGenerator.
C20_Witness ==
    /\ Done("calculate_receive_packet_resources")
    /\ call.num_frequency_channels = 432 /\ call.num_of_polarizations = 2
    /\ call.bits_per_sample = 32 /\ call.total_bandwidth = 1562500
    /\ call.oversampling_ratio = <<4, 3>>
    /\ result.nbits = 16
    /\ result.tsamp = Rat(20736, 100)
    /\ result.bytes_per_second = Rat(50000000, 3)

(***************************************************************************)
(* Properties of the functions that map a scan request                     *)
(***************************************************************************)
\* C25: get_frequency_band_config returns the Low configuration when the
\* band is None or "low", returns the Mid configuration of the band for each
\* of "1", "2", "3", "4", "5a" and "5b" (185 channels and 4 samples a
\* packet, the UDP format and the buffers of the band), and raises for every
\* other band: no other band gets a configuration.
C25_BandConfigOrError ==
    Done("get_frequency_band_config") =>
        LET band == call.frequency_band
            Mid(udp_format, packets_per_buffer, num_of_buffers) ==
                result = [kind |-> "return",
                          value |-> [udp_format |-> udp_format,
                                     packet_nchan |-> 185,
                                     packet_nsamp |-> 4,
                                     packets_per_buffer |-> packets_per_buffer,
                                     num_of_buffers |-> num_of_buffers]]
        IN  CASE band \in {<<>>, <<"low">>} ->
                     result = [kind |-> "return",
                               value |-> [udp_format |-> "LowPST",
                                          packet_nchan |-> 24,
                                          packet_nsamp |-> 32,
                                          packets_per_buffer |-> 16,
                                          num_of_buffers |-> 64]]
              [] band = <<"1">> -> Mid("MidPSTBand1", 1024, 128)
              [] band = <<"2">> -> Mid("MidPSTBand2", 1024, 128)
              [] band = <<"3">> -> Mid("MidPSTBand3", 512, 256)
              [] band = <<"4">> -> Mid("MidPSTBand4", 512, 256)
              [] band \in {<<"5a">>, <<"5b">>} -> Mid("MidPSTBand5", 512, 256)
              [] OTHER -> result.kind = "KeyError" /\ result.key = band[1]

\* C25 witness: a band the table lacks was asked for and the call raised.
C25_Witness ==
    /\ Done("get_frequency_band_config")
    /\ call.frequency_band = <<"Low">>
    /\ result = KeyError("Low")

\* C22: for positive inputs, the resolution of the data buffer that
\* calculate_smrb_subband_resources computes is obsnchan * obsnpol *
\* bits_per_sample * udp_nsamp / 8, with the whole bits_per_sample: 8 *
\* (db_bufsz / packets_per_buffer) equals obsnchan * obsnpol *
\* bits_per_sample * udp_nsamp, nothing being lost to a division of
\* integers.
C22_DataBufferResolutionIsExact ==
    Done("calculate_smrb_subband_resources") /\ result.kind = "return" =>
        LET request_params == call.request_params
            packets_per_buffer ==
                get_frequency_band_config(
                    frequency_band_of(request_params)).value.packets_per_buffer
        IN  RatMul(Float(8), RatDiv(Float(result.value[1].db_bufsz),
                                    Float(packets_per_buffer)))
                = Float(request_params.num_frequency_channels
                            * request_params.num_of_polarizations
                            * request_params.bits_per_sample
                            * request_params.udp_nsamp)

\* The keys of the request that carry a quantity of the scan and that the
\* operation called makes its result from
PhysicalKeys ==
    CASE call.op = "generate_dsp_scan_request" ->
             Elements(PacketKeys) \cup {"max_scan_length"}
      [] call.op = "generate_recv_scan_request" ->
             Elements(RecvScanKeys) \cup {"max_scan_length"}
      [] call.op = "calculate_receive_subband_resources" ->
             Elements(PacketKeys) \cup Elements(CommonKeys)
      [] call.op = "calculate_smrb_subband_resources" ->
             Elements(SmrbKeys)
      [] OTHER -> {}

\* C23: no default stands in for a physical quantity.  A call whose request
\* lacks a physical key fails (for example generate_dsp_scan_request without
\* max_scan_length) and returns no result made from a default; only the
\* constants of the band are defaulted, when the request has no
\* frequency_band: where the band is looked up (everywhere but in
\* generate_recv_scan_request), a frequency_band the table lacks fails too.
C23_NoDefaultForPhysicalQuantity ==
    (result.kind # "pending" /\ "request_params" \in DOMAIN call) =>
        /\ \A key \in PhysicalKeys :
               key \notin DOMAIN call.request_params
                   => result.kind # "return"
        /\ (call.op # "generate_recv_scan_request"
                /\ "frequency_band" \in DOMAIN call.request_params
                /\ call.request_params.frequency_band
                       \notin DOMAIN MID_BAND_CONFIG \cup {"low"})
               => result.kind # "return"

\* The keys calculate_receive_subband_resources requires of the request
RequiredKeys == Elements(PacketKeys) \cup Elements(CommonKeys)

\* C24: calculate_receive_subband_resources called with a request that
\* lacks one of the keys it requires (and is valid otherwise) raises an
\* error whose message names that key, and returns nothing: the outcome
\* holds no part of a result.
C24_MissingKeyIsNamed ==
    Done("calculate_receive_subband_resources") =>
        \A key \in RequiredKeys :
            (/\ RequiredKeys \ DOMAIN call.request_params = {key}
             /\ get_udp_format(call.request_params).kind = "return")
                => /\ result.kind = "RuntimeError"
                   /\ \E i \in DOMAIN result.message : result.message[i] = key
                   /\ DOMAIN result = {"kind", "message"}

\* C24 witness: the request lacks udp_nsamp, which
\* calculate_receive_common_resources reads, and the error names it.
C24_Witness ==
    /\ Done("calculate_receive_subband_resources")
    /\ call.request_params = Without(BaseRequest, "udp_nsamp")
    /\ call.subband_udp_ports = <<32080>>
    /\ result = [kind |-> "RuntimeError",
                 message |-> <<"Error in calculating RECV subband resources. ",
                               "'", "udp_nsamp", "'", " was not found.">>]

(***************************************************************************)
(* Properties of create_udp_data_generator                                 *)
(***************************************************************************)
\* A parameter is given to the call when it is a keyword argument or a
\* field of the config that is not None; the keyword argument is the value
\* that counts when both give it.
IsGiven(key) ==
    \/ key \in DOMAIN call.kwargs
    \/ /\ call.generator_params # <<>>
       /\ key \in DOMAIN call.generator_params[1]
       /\ call.generator_params[1][key] # PyNone

GivenValue(key) ==
    IF key \in DOMAIN call.kwargs
    THEN call.kwargs[key]
    ELSE call.generator_params[1][key]

GivenKeys ==
    DOMAIN call.kwargs
        \cup IF call.generator_params = <<>>
             THEN {}
             ELSE {key \in DOMAIN call.generator_params[1] : IsGiven(key)}

\* A value is numeric when it is an int or a float (a bool is an int)
Numeric(v) == v.type \in {"int", "float", "bool"}
AllNumeric == \A key \in GivenKeys : Numeric(GivenValue(key))

\* The call raised AssertionError and made no generator
Rejected == result.kind = "AssertionError" /\ DOMAIN result = {"kind", "message"}
Accepted == result.kind = "return"

\* C26: create_udp_data_generator with data_generator "Sine" raises an
\* assertion error and returns no generator when sinusoid_freq is missing or
\* is not numeric; with a numeric sinusoid_freq it returns a generator whose
\* environment holds data_generator and the sinusoid_freq that was given.
C26_SineNeedsNumericFrequency ==
    (Done("create_udp_data_generator") /\ call.data_generator = <<"Sine">>) =>
        IF IsGiven("sinusoid_freq") /\ Numeric(GivenValue("sinusoid_freq"))
        THEN /\ Accepted
             /\ {"data_generator", "sinusoid_freq"}
                    \subseteq DOMAIN result.environment
             /\ result.environment.data_generator = <<"Sine">>
             /\ result.environment.sinusoid_freq = GivenValue("sinusoid_freq")
        ELSE Rejected

\* C26 witness: sinusoid_freq is a string and the call is rejected with the
\* message of _assert_float.
C26_Witness ==
    /\ Done("create_udp_data_generator")
    /\ call.data_generator = <<"Sine">>
    /\ call.generator_params = <<>>
    /\ call.kwargs = [sinusoid_freq |-> PyStr("this is invalid")]
    /\ result = Assertion(<<"Expected '", "sinusoid_freq",
                            "' to be a float when data_generator is '",
                            "Sine", "'">>)

\* The intensities of SquareWave that go in pairs
IntensityPairs ==
    {<<"cal_on_chan_0_intensity", "cal_on_chan_n_intensity">>,
     <<"cal_on_pol_0_chan_0_intensity", "cal_on_pol_0_chan_n_intensity">>,
     <<"cal_on_pol_1_chan_0_intensity", "cal_on_pol_1_chan_n_intensity">>}

\* pair[m] is given and the other member of the pair is missing
HalfGiven(pair, m) == IsGiven(pair[m]) /\ ~IsGiven(pair[3 - m])
SomeHalfGiven == \E pair \in IntensityPairs, m \in 1..2 : HalfGiven(pair, m)

\* value > 0 and 0 < value < 1
Positive(key) == RatLess(Float(0), float(GivenValue(key)))
InsideUnit(key) == Positive(key) /\ RatLess(float(GivenValue(key)), Float(1))

\* C27: for SquareWave each of the three pairs of intensities must be given
\* together.  A call that gives exactly one member of a pair is rejected,
\* with an assertion that names the missing member of such a pair when the
\* values given are numeric; a call that gives both members or neither of
\* every pair, and whose values are numeric and in range, is accepted.
C27_IntensityPairsGoTogether ==
    (Done("create_udp_data_generator")
         /\ call.data_generator = <<"SquareWave">>) =>
        /\ SomeHalfGiven => Rejected
        /\ (SomeHalfGiven /\ AllNumeric) =>
               \E pair \in IntensityPairs, m \in 1..2 :
                   /\ HalfGiven(pair, m)
                   /\ result.message
                          = <<"Expected '", pair[3 - m],
                              "' set when data_generator is '",
                              "SquareWave", "'">>
        /\ (/\ ~SomeHalfGiven
            /\ AllNumeric
            /\ IsGiven("cal_duty_cycle") => InsideUnit("cal_duty_cycle")
            /\ IsGiven("calfreq") => Positive("calfreq"))
               => Accepted

\* C27 witness: the config gives cal_on_pol_1_chan_n_intensity alone and the
\* call is rejected for the missing cal_on_pol_1_chan_0_intensity.
C27_Witness ==
    /\ Done("create_udp_data_generator")
    /\ call.data_generator = <<"SquareWave">>
    /\ call.generator_params # <<>>
    /\ GivenKeys = {"cal_on_pol_1_chan_n_intensity"}
    /\ result = Assertion(<<"Expected '", "cal_on_pol_1_chan_0_intensity",
                            "' set when data_generator is '",
                            "SquareWave", "'">>)

\* The parameters with a lower bound of 0, exclusive
PositiveKeys ==
    CASE call.data_generator = <<"GaussianNoise">> ->
             {"normal_dist_stddev", "normal_dist_red_stddev"}
      [] call.data_generator = <<"SquareWave">> -> {"calfreq"}
      [] OTHER -> {}

MaxProxyCalls == 4

\* The attributes subscribed to and the callbacks passed.
AttributeNames == {"obsState", "healthState"}
Callbacks == {"callback", "callback2"}

\* The first id the device's subscribe_event returns; every later call
\* returns the next one.
FIRST_SUBSCRIPTION_ID == 1138

\* ChangeEventSubscription.__init__
ChangeEventSubscription(subscription_id, callbacks, attribute_name) ==
    [_subscription_id |-> subscription_id,
     _subscribed |-> TRUE,
     _callbacks |-> callbacks,
     _attribute_name |-> attribute_name]

\* The handles constructed: subscriptions[h] is the object h refers to.
Handles == DOMAIN subscriptions

\* __del__ has run on the handle.
Collected(h) ==
    \E i \in DOMAIN history :
        history[i].op = "__del__" /\ history[i].subscription = h

\* The proxy's map refers to the handle.
Referenced(h) ==
    \E attribute_name \in DOMAIN _subscriptions :
        _subscriptions[attribute_name] = h

\* self._device.subscribe_event(attribute_name, CHANGE_EVENT, _handle_event,
\* stateless=stateless): the call is recorded with the id it returns
subscribe_event(attribute_name, stateless) ==
    [attribute_name |-> attribute_name,
     stateless |-> stateless,
     returned |-> FIRST_SUBSCRIPTION_ID + Len(_device.subscribe_event)]

already_subscribed_Never(attribute_name) == FALSE

\* "attribute_name in self._subscriptions"
already_subscribed(attribute_name) == attribute_name \in DOMAIN _subscriptions

\* PstDeviceProxy.subscribe_change_event, up to its return statement
subscribe_change_event(attribute_name, callback, stateless) ==
    IF already_subscribed(attribute_name)
    THEN LET subscription == _subscriptions[attribute_name]
         IN  /\ subscriptions' =
                    [subscriptions EXCEPT
                         ![subscription]._callbacks = Append(@, callback)]
             /\ _device' = [_device EXCEPT
                                !.read_attribute = Append(@, attribute_name)]
             /\ called' = Append(called, callback)
             /\ UNCHANGED _subscriptions
    ELSE LET event == subscribe_event(attribute_name, stateless)
             subscription == Len(subscriptions) + 1
         IN  /\ _device' = [_device EXCEPT
                                !.subscribe_event = Append(@, event)]
             /\ subscriptions' =
                    Append(subscriptions,
                           ChangeEventSubscription(event.returned,
                                                   <<callback>>,
                                                   attribute_name))
             /\ _subscriptions' =
                    Override(_subscriptions, attribute_name :> subscription)
             /\ UNCHANGED called

\* PstDeviceProxy.unsubscribe_change_event: _task calls the device and the
\* handler waits for it, then the attribute leaves the map
unsubscribe_change_event(subscription) ==
    LET attribute_name == subscriptions[subscription]._attribute_name
        subscription_id == subscriptions[subscription]._subscription_id
    IN  /\ _device' = [_device EXCEPT
                           !.unsubscribe_event = Append(@, subscription_id)]
        /\ _subscriptions' =
               IF attribute_name \in DOMAIN _subscriptions
               THEN Without(_subscriptions, attribute_name)
               ELSE _subscriptions

unsubscribe_Unguarded(subscription) ==
    /\ unsubscribe_change_event(subscription)
    /\ subscriptions' = [subscriptions EXCEPT
                             ![subscription]._subscribed = FALSE,
                             ![subscription]._callbacks = <<>>]

\* ChangeEventSubscription.unsubscribe
unsubscribe(subscription) ==
    IF subscriptions[subscription]._subscribed
    THEN /\ unsubscribe_change_event(subscription)
         /\ subscriptions' = [subscriptions EXCEPT
                                  ![subscription]._subscribed = FALSE,
                                  ![subscription]._callbacks = <<>>]
    ELSE UNCHANGED <<_subscriptions, subscriptions, _device>>

\* A client calls subscribe_change_event and receives
\* self._subscriptions[attribute_name].
SubscribeChangeEvent ==
    /\ Len(history) < MaxProxyCalls
    /\ \E attribute_name \in AttributeNames, callback \in Callbacks,
          stateless \in BOOLEAN :
           /\ subscribe_change_event(attribute_name, callback, stateless)
           /\ history' =
                  Append(history,
                         [op |-> "subscribe_change_event",
                          attribute_name |-> attribute_name,
                          callback |-> callback,
                          returned |-> _subscriptions'[attribute_name]])
    /\ UNCHANGED <<udpVars, fnVars, utilVars>>

\* The subscribers that hold the handle: the calls of
\* subscribe_change_event, by their place in the history, that returned it
Subscribers(subscription) ==
    {i \in DOMAIN history :
         /\ history[i].op = "subscribe_change_event"
         /\ history[i].returned = subscription}

\* A subscriber calls unsubscribe on the handle it holds.
Unsubscribe ==
    /\ Len(history) < MaxProxyCalls
    /\ \E subscription \in Handles :
           /\ ~Collected(subscription)
           /\ unsubscribe(subscription)
           /\ \E subscriber \in Subscribers(subscription) :
                  history' = Append(history, [op |-> "unsubscribe",
                                              subscription |-> subscription,
                                              subscriber |-> subscriber])
    /\ UNCHANGED <<udpVars, fnVars, utilVars, called>>

\* ChangeEventSubscription.__del__: the clients have dropped a handle the
\* proxy's map does not refer to, and the handle is deleted.
Del ==
    /\ Len(history) < MaxProxyCalls
    /\ \E subscription \in Handles :
           /\ ~Collected(subscription)
           /\ ~Referenced(subscription)
           /\ unsubscribe(subscription)
           /\ history' = Append(history, [op |-> "__del__",
                                          subscription |-> subscription])
    /\ UNCHANGED <<udpVars, fnVars, utilVars, called>>

\* What an event of the device brings: an error, no value, or a value
Events == {"err", "empty", "value"}

\* PstDeviceProxy._event_callback, run by the thread that _handle_event
\* starts for an event of an attribute the device was asked to send events
\* of: an event with an error is dropped, for an event without a value the
\* attribute is read, and the callbacks of the attribute's subscription are
\* called if the map has one
_event_callback(attribute_name, event) ==
    /\ _device' = IF event = "empty"
                  THEN [_device EXCEPT
                            !.read_attribute = Append(@, attribute_name)]
                  ELSE _device
    /\ called' = IF event # "err" /\ attribute_name \in DOMAIN _subscriptions
                 THEN called \o subscriptions[_subscriptions[attribute_name]]
                                    ._callbacks
                 ELSE called

EventCallback ==
    /\ Len(history) < MaxProxyCalls
    /\ \E attribute_name \in AttributeNames, event \in Events :
           /\ \E i \in DOMAIN _device.subscribe_event :
                  _device.subscribe_event[i].attribute_name = attribute_name
           /\ _event_callback(attribute_name, event)
           /\ history' = Append(history, [op |-> "_event_callback",
                                          attribute_name |-> attribute_name,
                                          event |-> event])
    /\ UNCHANGED <<udpVars, fnVars, utilVars, _subscriptions, subscriptions>>

ProxyNext ==
    \/ SubscribeChangeEvent
    \/ Unsubscribe
    \/ Del
    \/ EventCallback

ProxySpec == Init /\ [][ProxyNext]_vars

\* The number of elements of the list that satisfy Test
Count(list, Test(_)) == Cardinality({i \in DOMAIN list : Test(list[i])})

\* The callbacks of the calls of subscribe_change_event that returned the
\* handle, in call order
RECURSIVE CallbacksPassed(_, _)
CallbacksPassed(h, n) ==
    IF n = 0
    THEN <<>>
    ELSE IF /\ history[n].op = "subscribe_change_event"
            /\ history[n].returned = h
         THEN Append(CallbacksPassed(h, n - 1), history[n].callback)
         ELSE CallbacksPassed(h, n - 1)

\* The step is a call of subscribe_change_event for the attribute.
SubscribesTo(attribute_name) ==
    /\ Len(history') = Len(history) + 1
    /\ history'[Len(history')].op = "subscribe_change_event"
    /\ history'[Len(history')].attribute_name = attribute_name

\* C29: the device's subscribe_event is called once per attribute for as
\* long as the attribute has a subscription: the calls of subscribe_event
\* for an attribute are one more than its ended subscriptions while it is in
\* the map and as many otherwise; a subscribed handle holds the callbacks of
\* the calls that returned it, in call order; and a subscribe_change_event
\* for an attribute that is in the map returns the handle of the map, appends
\* its callback to that handle's callbacks and does not call
\* subscribe_event.
C29_SubscribedOncePerAttribute ==
    /\ [](\A attribute_name \in AttributeNames :
              LET of(event) == event.attribute_name = attribute_name
                  ended(s) == s._attribute_name = attribute_name
                                  /\ ~s._subscribed
              IN  Count(_device.subscribe_event, of)
                      = Count(subscriptions, ended)
                            + (IF attribute_name \in DOMAIN _subscriptions
                               THEN 1 ELSE 0))
    /\ [](\A h \in Handles :
              subscriptions[h]._subscribed
                  => subscriptions[h]._callbacks
                         = CallbacksPassed(h, Len(history)))
    /\ [][\A attribute_name \in DOMAIN _subscriptions :
              SubscribesTo(attribute_name)
                  => LET h == _subscriptions[attribute_name]
                         made == history'[Len(history')]
                     IN  /\ made.returned = h
                         /\ _subscriptions'[attribute_name] = h
                         /\ subscriptions'[h]._callbacks
                                = Append(subscriptions[h]._callbacks,
                                         made.callback)
                         /\ _device'.subscribe_event
                                = _device.subscribe_event]_vars

\* A handle returned by two calls for its attribute holds both callbacks,
\* and an attribute has been subscribed to again after its subscription
\* ended.
C29_Witness ==
    /\ \E h \in Handles :
           /\ subscriptions[h]._subscribed
           /\ Len(subscriptions[h]._callbacks) >= 2
    /\ \E h, k \in Handles :
           /\ h < k
           /\ subscriptions[h]._attribute_name
                  = subscriptions[k]._attribute_name

\* The step is a call of unsubscribe on the handle, from a client or from
\* __del__.
Unsubscribes(h) ==
    /\ Len(history') = Len(history) + 1
    /\ history'[Len(history')].op \in {"unsubscribe", "__del__"}
    /\ history'[Len(history')].subscription = h

\* C30: a handle on which unsubscribe has been called is not subscribed, has
\* no callbacks, is not in the proxy's map, and the device's
\* unsubscribe_event has been called once with its subscription id; the
\* first unsubscribe takes the handle's attribute out of the map, and an
\* unsubscribe on a handle that is not subscribed changes nothing.
C30_UnsubscribeOnce ==
    /\ [](\A i \in DOMAIN history :
              history[i].op \in {"unsubscribe", "__del__"}
                  => LET h == history[i].subscription
                         with(id) == id = subscriptions[h]._subscription_id
                     IN  /\ ~subscriptions[h]._subscribed
                         /\ subscriptions[h]._callbacks = <<>>
                         /\ ~Referenced(h)
                         /\ Count(_device.unsubscribe_event, with) = 1)
    /\ [][\A h \in Handles :
              Unsubscribes(h)
                  => IF subscriptions[h]._subscribed
                     THEN subscriptions[h]._attribute_name
                              \notin DOMAIN _subscriptions'
                     ELSE UNCHANGED <<_subscriptions, subscriptions,
                                      _device, called>>]_vars

\* A handle has been unsubscribed, its attribute has been subscribed to
\* again, and the first handle has been unsubscribed again and deleted.
C30_Witness ==
    \E i, j, k \in DOMAIN history :
        /\ i < j /\ j < k
        /\ history[i].op = "unsubscribe"
        /\ history[j].op = "subscribe_change_event"
        /\ history[j].attribute_name
               = subscriptions[history[i].subscription]._attribute_name
        /\ history[k].op = "__del__"
        /\ history[k].subscription = history[i].subscription
        /\ \E attribute_name \in DOMAIN _subscriptions :
               _subscriptions[attribute_name] = history[j].returned

\* The subscriber has not called unsubscribe.
StillSubscribed(subscriber) ==
    \A i \in DOMAIN history :
        history[i].op = "unsubscribe" => history[i].subscriber # subscriber

\* The step is an event with or without a value for the attribute.
Delivers(attribute_name) ==
    /\ Len(history') = Len(history) + 1
    /\ history'[Len(history')].op = "_event_callback"
    /\ history'[Len(history')].attribute_name = attribute_name
    /\ history'[Len(history')].event # "err"

\* C39: the callback of every subscriber that has not called unsubscribe is
\* among the callbacks of its attribute's subscription in the map, whatever
\* the other subscribers of the attribute have done, and an event for the
\* attribute calls it.
C39_SubscribersAreIndependent ==
    /\ [](\A i \in DOMAIN history :
              (history[i].op = "subscribe_change_event" /\ StillSubscribed(i))
                  => LET attribute_name == history[i].attribute_name
                     IN  /\ attribute_name \in DOMAIN _subscriptions
                         /\ history[i].callback
                                \in Elements(subscriptions[
                                        _subscriptions[attribute_name]]
                                                 ._callbacks))
    /\ [][\A i \in DOMAIN history :
              (/\ history[i].op = "subscribe_change_event"
               /\ StillSubscribed(i)
               /\ Delivers(history[i].attribute_name))
                  => /\ Len(called') > Len(called)
                     /\ history[i].callback
                            \in {called'[k] :
                                     k \in (Len(called) + 1)..Len(called')}
      ]_vars

(***************************************************************************)
(* Part 6: the arithmetic of Python's float (IEEE 754 binary64, results    *)
(* rounded to the nearest value, ties to the even mantissa) for the        *)
(* quantities the receive resources and check_contiguous_files compute     *)
(* from one request.  The values are positive and far from the ends of the *)
(* exponent range.  A natural number of any size is the list of its digits *)
(* in base 2^15, lowest first, without leading zeros.                      *)
(***************************************************************************)
Base == 2 ^ 15

\* The number of bits of a digit
RECURSIVE BitsOf(_)
BitsOf(k) == IF k = 0 THEN 0 ELSE 1 + BitsOf(k \div 2)

LimbBits == BitsOf(Base - 1)

\* The bits of a float's mantissa
MantissaBits == 53

\* The natural number n < 2^31 as a list of digits
RECURSIVE Big(_)
Big(n) == IF n = 0 THEN <<>> ELSE <<n % Base>> \o Big(n \div Base)

\* The digits without leading zeros
RECURSIVE Trim(_)
Trim(a) ==
    IF a # <<>> /\ a[Len(a)] = 0 THEN Trim(SubSeq(a, 1, Len(a) - 1)) ELSE a

Limb(a, i) == IF i \in DOMAIN a THEN a[i] ELSE 0

\* a < b, decided at the highest digit where they differ, from digit i down
RECURSIVE BigLessFrom(_, _, _)
BigLessFrom(a, b, i) ==
    IF i = 0
    THEN FALSE
    ELSE IF a[i] # b[i] THEN a[i] < b[i] ELSE BigLessFrom(a, b, i - 1)

BigLess(a, b) ==
    IF Len(a) # Len(b) THEN Len(a) < Len(b) ELSE BigLessFrom(a, b, Len(a))

\* a + b, from digit i up with a carry
RECURSIVE BigAddFrom(_, _, _, _)
BigAddFrom(a, b, i, carry) ==
    IF i > Len(a) /\ i > Len(b)
    THEN IF carry = 0 THEN <<>> ELSE <<carry>>
    ELSE LET sum == Limb(a, i) + Limb(b, i) + carry
         IN  <<sum % Base>> \o BigAddFrom(a, b, i + 1, sum \div Base)

BigAdd(a, b) == BigAddFrom(a, b, 1, 0)

\* a - b for a >= b, from digit i up with a borrow
RECURSIVE BigSubFrom(_, _, _, _)
BigSubFrom(a, b, i, borrow) ==
    IF i > Len(a)
    THEN <<>>
    ELSE LET difference == a[i] - Limb(b, i) - borrow
         IN  <<difference % Base>>
                 \o BigSubFrom(a, b, i + 1, IF difference < 0 THEN 1 ELSE 0)

BigSub(a, b) == Trim(BigSubFrom(a, b, 1, 0))

\* a * k for a digit k, from digit i up with a carry
RECURSIVE BigScaleFrom(_, _, _, _)
BigScaleFrom(a, k, i, carry) ==
    IF i > Len(a)
    THEN IF carry = 0 THEN <<>> ELSE <<carry>>
    ELSE LET product == a[i] * k + carry
         IN  <<product % Base>> \o BigScaleFrom(a, k, i + 1, product \div Base)

BigScale(a, k) == Trim(BigScaleFrom(a, k, 1, 0))

\* a * Base^n
ShiftLimbs(a, n) == IF a = <<>> THEN a ELSE [i \in 1..n |-> 0] \o a

\* a * b, the digits of b from digit i up
RECURSIVE BigMulFrom(_, _, _)
BigMulFrom(a, b, i) ==
    IF i > Len(b)
    THEN <<>>
    ELSE BigAdd(ShiftLimbs(BigScale(a, b[i]), i - 1), BigMulFrom(a, b, i + 1))

BigMul(a, b) == BigMulFrom(a, b, 1)

\* The number of bits of a number
BitLen(a) ==
    IF a = <<>> THEN 0 ELSE (Len(a) - 1) * LimbBits + BitsOf(a[Len(a)])

\* Bit i of a, bit 0 the lowest
Bit(a, i) == (Limb(a, i \div LimbBits + 1) \div 2 ^ (i % LimbBits)) % 2

\* a * 2^k
ShiftLeft(a, k) ==
    ShiftLimbs(BigScale(a, 2 ^ (k % LimbBits)), k \div LimbBits)

\* a // 2^k: the bits from bit k up
ShiftRight(a, k) ==
    LET dropped == k \div LimbBits
        low == 2 ^ (k % LimbBits)
        high == Base \div low
    IN  Trim([i \in 1..(Len(a) - dropped) |->
                  Limb(a, i + dropped) \div low
                      + (Limb(a, i + dropped + 1) % low) * high])

\* a // b for a < Base * b, where the highest digit of b is Base / 2 or more:
\* the quotient of the highest digits is the digit sought or above it by at
\* most 2
QuotientDigit(a, b) ==
    LET n == Len(b)
        quotient == (Limb(a, n + 1) * Base + Limb(a, n)) \div b[n]
        estimate == IF quotient < Base THEN quotient ELSE Base - 1
    IN  IF ~BigLess(a, BigScale(b, estimate))
        THEN estimate
        ELSE IF ~BigLess(a, BigScale(b, estimate - 1))
        THEN estimate - 1
        ELSE estimate - 2

\* divmod(a * Base^n, b) for a < Base * b, by long division: one more digit
\* of the quotient for every digit the remainder is shifted by
RECURSIVE BigDivMod(_, _, _)
BigDivMod(a, b, n) ==
    LET before == BigDivMod(a, b, n - 1)
        brought == IF n = 0 THEN a ELSE ShiftLimbs(before.remainder, 1)
        digit == QuotientDigit(brought, b)
    IN  [quotient |-> BigAdd(IF n = 0 THEN <<>>
                             ELSE ShiftLimbs(before.quotient, 1),
                             Big(digit)),
         remainder |-> BigSub(brought, BigScale(b, digit))]

\* The float nearest to n * 2^e for a natural number n > 0, as its mantissa
\* m of MantissaBits bits and its exponent: the float is m * 2^e.  inexact
\* says that the number rounded is above n * 2^e by less than 2^e.
Round(n, e, inexact) ==
    LET excess == BitLen(n) - MantissaBits
        kept == ShiftRight(n, excess)
        rest == BigSub(n, ShiftLeft(kept, excess))
        half == ShiftLeft(Big(1), excess - 1)
        up == \/ BigLess(half, rest)
              \/ rest = half /\ (inexact \/ Bit(kept, 0) = 1)
        rounded == IF up THEN BigAdd(kept, Big(1)) ELSE kept
    IN  IF excess <= 0
        THEN [m |-> ShiftLeft(n, -excess), e |-> e + excess]
        ELSE IF BitLen(rounded) > MantissaBits
        THEN [m |-> ShiftRight(rounded, 1), e |-> e + excess + 1]
        ELSE [m |-> rounded, e |-> e + excess]

\* float(n) of an int 0 < n < 2^31
Binary64(n) == Round(Big(n), 0, FALSE)

\* The floats above 0: a mantissa and an exponent
Floats == [m : Seq(0..(Base - 1)), e : Int]

\* a * b of floats
Mul[a \in Floats, b \in Floats] == Round(BigMul(a.m, b.m), a.e + b.e, FALSE)

\* a / b of floats: both mantissas are scaled until the highest digit of
\* the divisor is Base / 2 or more, and the quotient is taken to as many
\* digits more as a mantissa has
Div[a \in Floats, b \in Floats] ==
    LET scale == 2 ^ (LimbBits - BitsOf(b.m[Len(b.m)]))
        extra == Len(b.m)
        divided == BigDivMod(BigScale(a.m, scale), BigScale(b.m, scale),
                             extra)
    IN  Round(divided.quotient, a.e - b.e - extra * LimbBits,
              divided.remainder # <<>>)

\* bandwidth_mhz and tsamp of calculate_receive_packet_resources, as the
\* floats Python computes: every operator rounds its result
tsamp_binary64(nchan, bandwidth, oversampling_ratio) ==
    LET bandwidth_mhz == Div[Binary64(bandwidth), Binary64(MEGA_HERTZ)]
    IN  Div[Binary64(1),
            Div[Mul[Div[bandwidth_mhz, Binary64(nchan)],
                    Binary64(oversampling_ratio[1])],
                Binary64(oversampling_ratio[2])]]

\* bytes_per_second = nchan * npol * nbits * NUM_DIMENSIONS / 8 * 1_000_000
\* / tsamp: the product of ints is exact, the operators after it are applied
\* from left to right
bytes_per_second_binary64(nchan, npol, nbits, tsamp) ==
    Div[Mul[Div[Binary64(nchan * npol * nbits * NUM_DIMENSIONS), Binary64(8)],
            Binary64(1000000)],
        tsamp]

\* The floats and the ints of the result of
\* calculate_receive_packet_resources
packet_resources_binary64(request_params) ==
    LET nchan == request_params.num_frequency_channels
        npol == request_params.num_of_polarizations
        nbits == request_params.bits_per_sample
        tsamp == tsamp_binary64(nchan, request_params.total_bandwidth,
                                request_params.oversampling_ratio)
    IN  [nchan |-> nchan, npol |-> npol, nbits |-> nbits,
         ndim |-> NUM_DIMENSIONS, tsamp |-> tsamp,
         bytes_per_second |->
             bytes_per_second_binary64(nchan, npol, nbits, tsamp)]

\* The bytes_per_second of the result of generate_dsp_scan_request
dsp_bytes_per_second_binary64(request_params) ==
    LET recv_packet_resources == packet_resources_binary64(request_params)
    IN  recv_packet_resources.bytes_per_second

\* expected_size = scanlen * MILLISECS_PER_SEC * nbit * ndim * npol * nchan
\*                 / (BITS_PER_BYTE * tsamp) of check_contiguous_files, the
\* operators applied from left to right
expected_size_binary64(scanlen, calculated_resources) ==
    Div[Mul[Mul[Mul[Mul[Mul[scanlen, Binary64(MILLISECS_PER_SEC)],
                        Binary64(calculated_resources.nbits)],
                    Binary64(calculated_resources.ndim)],
                Binary64(calculated_resources.npol)],
            Binary64(calculated_resources.nchan)],
        Mul[Binary64(BITS_PER_BYTE), calculated_resources.tsamp]]

\* The lengths of the scans, in seconds
ScanLengths == {1, 10, 30}

\* A scan is configured from a request and its recording is checked with
\* the resources calculated from the same request.
AnchorCalls ==
    [op : {"check_contiguous_files"},
     scanlen : {Binary64(seconds) : seconds \in ScanLengths},
     num_frequency_channels : NumFrequencyChannels,
     num_of_polarizations : NumOfPolarizations,
     bits_per_sample : BitsPerSample,
     total_bandwidth : TotalBandwidth,
     oversampling_ratio : OversamplingRatio]

\* The resources are calculated from the request, for receiving and for
\* writing to disk.
CalculateResources ==
    /\ result = Pending
    /\ result' = [kind |-> "resources",
                  calculated_resources |-> packet_resources_binary64(call),
                  dsp_bytes_per_second |->
                      dsp_bytes_per_second_binary64(call)]
    /\ UNCHANGED <<udpVars, proxyVars, utilVars, call>>

\* check_contiguous_files, up to expected_size
ExpectedSize ==
    /\ result.kind = "resources"
    /\ result' = [kind |-> "return",
                  calculated_resources |-> result.calculated_resources,
                  dsp_bytes_per_second |-> result.dsp_bytes_per_second,
                  expected_size |->
                      expected_size_binary64(call.scanlen,
                                             result.calculated_resources)]
    /\ UNCHANGED <<udpVars, proxyVars, utilVars, call>>

AnchorInit == UdpInit /\ ProxyInit /\ UtilInit /\ call \in AnchorCalls /\ result = Pending

AnchorNext ==
    \/ CalculateResources
    \/ ExpectedSize

AnchorSpec == AnchorInit /\ [][AnchorNext]_vars

\* The bytes_per_second for writing to disk is the one for receiving.
SameBytesPerSecond ==
    result.kind \in {"resources", "return"}
        => result.dsp_bytes_per_second
               = result.calculated_resources.bytes_per_second

MaxRequests == 3
MaxRetries == 1

Fqdns == {"a/b/c", "d/e/f"}
GreenModes == {"Synchronous", "Asyncio"}

\* What one call of the supplier does: return a DeviceProxy, raise
\* tango.DevFailed, or raise another exception.
SupplierOutcomes == {"return", "DevFailed", "Exception"}

\* cls._proxy_supplier(fqdn, green_mode=green_mode), and
\* cls._proxy_supplier(fqdn) where green_mode is "absent"
SupplierCall(fqdn, green_mode, outcome) ==
    [fqdn |-> fqdn, green_mode |-> green_mode, outcome |-> outcome]

\* _get_proxy under backoff.on_exception: the supplier calls it makes when
\* the supplier raises DevFailed `retries` times before max_time and its
\* last call ends with `last`.
_get_proxy(fqdn, green_mode, retries, last) ==
    [i \in 1..(retries + 1) |->
        SupplierCall(fqdn, green_mode,
                     IF i <= retries THEN "DevFailed" ELSE last)]

\* The supplier calls of the body of "if fqdn not in cls._raw_proxies":
\* _get_proxy(), and cls._proxy_supplier(fqdn) when _get_proxy raised.
SupplierCalls(fqdn, green_mode, retries, last, fallback) ==
    _get_proxy(fqdn, green_mode, retries, last)
        \o (IF last = "return"
            THEN <<>>
            ELSE <<SupplierCall(fqdn, "absent", fallback)>>)

\* PstDeviceProxy(fqdn=fqdn, logger=logger, device=device)
PstDeviceProxy(id, fqdn, device) ==
    [id |-> id, _fqdn |-> fqdn, _device |-> device]

get_device_cached_Never(fqdn) == FALSE

\* not (fqdn not in cls._raw_proxies)
get_device_cached(fqdn) == fqdn \in DOMAIN _raw_proxies

\* DeviceProxyFactory.get_device(fqdn, green_mode)
get_device(fqdn, green_mode, retries, last, fallback) ==
    LET calls == IF get_device_cached(fqdn)
                 THEN <<>>
                 ELSE SupplierCalls(fqdn, green_mode, retries, last,
                                    fallback)
        log == _proxy_supplier \o calls
        created == calls # <<>> /\ log[Len(log)].outcome = "return"
        raises == calls # <<>> /\ ~created
        device == IF created THEN Len(log) ELSE _raw_proxies[fqdn]
        proxy == IF created
                 THEN PstDeviceProxy(Len(requests) + 1, fqdn, device)
                 ELSE __proxies[fqdn]
    IN  /\ _proxy_supplier' = log
        /\ _raw_proxies' =
               IF created
               THEN [f \in DOMAIN _raw_proxies \cup {fqdn} |->
                        IF f = fqdn THEN device ELSE _raw_proxies[f]]
               ELSE _raw_proxies
        /\ __proxies' =
               IF created
               THEN [f \in DOMAIN __proxies \cup {fqdn} |->
                        IF f = fqdn THEN proxy ELSE __proxies[f]]
               ELSE __proxies
        /\ requests' =
               Append(requests,
                      [fqdn |-> fqdn,
                       green_mode |-> green_mode,
                       kind |-> IF raises THEN "raise" ELSE "return",
                       proxy |-> IF raises
                                 THEN PstDeviceProxy(0, fqdn, 0)
                                 ELSE proxy])

GetDevice ==
    /\ Len(requests) < MaxRequests
    /\ \E fqdn \in Fqdns, green_mode \in GreenModes :
       \E retries \in 0..MaxRetries :
       \E last \in SupplierOutcomes, fallback \in {"return", "Exception"} :
          /\ fqdn \in DOMAIN _raw_proxies
                 => retries = 0 /\ last = "return"
          /\ last = "return" => fallback = "return"
          /\ retries > 0 => last # "Exception"
          /\ get_device(fqdn, green_mode, retries, last, fallback)
    /\ UNCHANGED <<udpVars, fnVars, proxyVars, scanIdVars, historyVars,
                   trackerVars>>

FactoryNext == GetDevice

FactorySpec == Init /\ [][FactoryNext]_vars

\* The supplier calls made for a fqdn.
SuppliedFor(fqdn) ==
    {i \in DOMAIN _proxy_supplier : _proxy_supplier[i].fqdn = fqdn}

\* The get_device calls for a fqdn.
RequestsFor(fqdn) == {i \in DOMAIN requests : requests[i].fqdn = fqdn}

\* The get_device calls that returned a proxy.
Returned == {i \in DOMAIN requests : requests[i].kind = "return"}

\* C31: two get_device calls with the same fqdn return the same
\* PstDeviceProxy and calls with different fqdn return different proxies;
\* where the supplier did not raise for a fqdn it was called exactly once
\* for it, with the fqdn and the green mode of the first request.
C31_OneProxyPerFqdn ==
    /\ \A i \in Returned, j \in Returned :
           requests[i].fqdn = requests[j].fqdn
               <=> requests[i].proxy = requests[j].proxy
    /\ \A fqdn \in Fqdns :
           (/\ RequestsFor(fqdn) # {}
            /\ \A i \in SuppliedFor(fqdn) :
                   _proxy_supplier[i].outcome = "return")
               => \E i \in DOMAIN _proxy_supplier :
                     /\ SuppliedFor(fqdn) = {i}
                     /\ LET first == CHOOSE r \in RequestsFor(fqdn) :
                                         \A q \in RequestsFor(fqdn) : r <= q
                        IN  _proxy_supplier[i]
                                = SupplierCall(fqdn,
                                               requests[first].green_mode,
                                               "return")

\* Three requests: two for one fqdn with different green modes, one for
\* another fqdn, the supplier raising for neither.
C31_Witness ==
    /\ Len(requests) = 3
    /\ requests[1].fqdn = requests[2].fqdn
    /\ requests[1].green_mode # requests[2].green_mode
    /\ requests[3].fqdn # requests[1].fqdn
    /\ \A i \in DOMAIN _proxy_supplier :
           _proxy_supplier[i].outcome = "return"

(***************************************************************************)
(* Part 8: scan_config/scan_id_factory.py, class ScanIdFactory.  One       *)
(* session-scoped factory (tests/conftest.py) serves one call of           *)
(* generate_scan_id at a time.  A step is one randint call or one test of  *)
(* the loop condition.  The factory is followed through its first call and *)
(* from the states it is in when only ids of FreeIds are still unused.      *)
(***************************************************************************)
MIN_SCAN_ID == 10
MAX_SCAN_ID == 1000

\* What randint(MIN_SCAN_ID, MAX_SCAN_ID) may return.
ScanIdRange == MIN_SCAN_ID..MAX_SCAN_ID

\* The ids that may still be unused in the factories followed.
FreeIds == {MIN_SCAN_ID, MAX_SCAN_ID}

Unused == ScanIdRange \ _previous_scan_ids

previously_generated_Never(id) == FALSE

\* next_scan_id in self._previous_scan_ids
previously_generated(id) == id \in _previous_scan_ids

\* next_scan_id = randint(MIN_SCAN_ID, MAX_SCAN_ID), line 37
Randint ==
    /\ scan_id_pc = "idle"
    /\ \/ _previous_scan_ids = {}
       \/ Unused \subseteq FreeIds
    /\ next_scan_id' \in ScanIdRange
    /\ scan_id_pc' = "while"
    /\ UNCHANGED <<_previous_scan_ids, scan_ids>>
    /\ UNCHANGED <<udpVars, fnVars, proxyVars, factoryVars, historyVars,
                   trackerVars>>

\* the loop body: next_scan_id = randint(MIN_SCAN_ID, MAX_SCAN_ID), line 39
Redraw ==
    /\ scan_id_pc = "while"
    /\ previously_generated(next_scan_id)
    /\ next_scan_id' \in ScanIdRange
    /\ UNCHANGED <<_previous_scan_ids, scan_id_pc, scan_ids>>
    /\ UNCHANGED <<udpVars, fnVars, proxyVars, factoryVars, historyVars,
                   trackerVars>>

\* self._previous_scan_ids.add(next_scan_id); return next_scan_id
ReturnScanId ==
    /\ scan_id_pc = "while"
    /\ ~previously_generated(next_scan_id)
    /\ _previous_scan_ids' = _previous_scan_ids \cup {next_scan_id}
    /\ scan_ids' = Append(scan_ids, next_scan_id)
    /\ scan_id_pc' = "idle"
    /\ UNCHANGED next_scan_id
    /\ UNCHANGED <<udpVars, fnVars, proxyVars, factoryVars, historyVars,
                   trackerVars>>

\* A new factory, or a factory that has returned all ids but some of
\* FreeIds.
ScanIdInit ==
    /\ UdpInit
    /\ ProxyInit
    /\ FactoryInit
    /\ AttributeHistoryInit("IDLE")
    /\ TrackerInit
    /\ call = NoCall
    /\ result = NoResult
    /\ \/ _previous_scan_ids = {}
       \/ \E free \in SUBSET FreeIds :
             _previous_scan_ids = ScanIdRange \ free
    /\ next_scan_id = None
    /\ scan_id_pc = "idle"
    /\ scan_ids = <<>>

ScanIdNext ==
    \/ Randint
    \/ Redraw
    \/ ReturnScanId

ScanIdSpec == ScanIdInit /\ [][ScanIdNext]_vars

\* randint returns every value of its range with a positive probability:
\* a call that keeps drawing does not miss the unused ids forever.
FairScanIdSpec ==
    /\ ScanIdSpec
    /\ WF_vars(ReturnScanId)
    /\ SF_vars(Redraw /\ ~previously_generated(next_scan_id)')

Range(seq) == {seq[i] : i \in DOMAIN seq}

\* C32: generate_scan_id returns no id the factory returned before, and
\* every id it returns is in [10, 1000].
C32_UniqueScanIds ==
    [][ReturnScanId
          => /\ next_scan_id \notin _previous_scan_ids \cup Range(scan_ids)
             /\ Range(scan_ids) \subseteq _previous_scan_ids
             /\ 10 <= next_scan_id
             /\ next_scan_id <= 1000
      ]_vars

\* Two calls have returned on a factory that had few unused ids left.
C32_Witness ==
    /\ Len(scan_ids) = 2
    /\ scan_id_pc = "idle"
    /\ Cardinality(_previous_scan_ids) > 2

\* C40: every call of generate_scan_id returns.
C40_GenerateScanIdTerminates ==
    (scan_id_pc = "while") ~> (scan_id_pc = "idle")

(***************************************************************************)
(* Part 9: tango/attributes_monitor.py, class _AttributeHistory, with one  *)
(* thread that calls wait_for_update (reached through                      *)
(* AttributesMonitor.wait_for_attribute_update) and the event thread that  *)
(* calls _update_value (through _handle_attribute_event).  A step is one   *)
(* call of _update_value, the read of current_value, or one call of        *)
(* _check_updated by backoff.on_predicate.  The clock is abstracted to     *)
(* whether max_time has passed.                                            *)
(***************************************************************************)
MaxHistory == 3

AttributeValues == {"IDLE", "READY", "SCANNING"}

Last(list) == list[Len(list)]

\* _AttributeHistory._update_value(value)
_update_value(value) ==
    _history' = IF Last(_history) # value
                THEN Append(_history, value)
                ELSE _history

\* _handle_attribute_event calls _update_value with the value of the event
UpdateValue ==
    /\ Len(_history) < MaxHistory
    /\ \E value \in AttributeValues :
          /\ _update_value(value)
          /\ updated' = (\/ updated
                         \/ /\ wait_pc = "polling"
                            /\ ~elapsed
                            /\ Last(_history) # value)
    /\ UNCHANGED <<current_value, wait_pc, elapsed>>
    /\ UNCHANGED <<udpVars, fnVars, proxyVars, factoryVars, scanIdVars,
                   trackerVars>>

\* wait_for_update: current_value = self.current_value, line 61
WaitForUpdate ==
    /\ wait_pc = "idle"
    /\ current_value' = Last(_history)
    /\ wait_pc' = "polling"
    /\ UNCHANGED <<_history, elapsed, updated>>
    /\ UNCHANGED <<udpVars, fnVars, proxyVars, factoryVars, scanIdVars,
                   trackerVars>>

\* max_time seconds have passed since backoff called _check_updated first
MaxTimePasses ==
    /\ wait_pc = "polling"
    /\ ~elapsed
    /\ elapsed' = TRUE
    /\ UNCHANGED <<_history, current_value, wait_pc, updated>>
    /\ UNCHANGED <<udpVars, fnVars, proxyVars, factoryVars, scanIdVars,
                   trackerVars>>

\* current_value != self._history[-1], line 74
_check_updated == current_value # Last(_history)

\* One round of backoff.on_predicate: it returns when _check_updated() is
\* true, gives up (TimeoutError) when max_time has passed, and sleeps
\* otherwise.
CheckUpdated ==
    /\ wait_pc = "polling"
    /\ wait_pc' = IF _check_updated
                  THEN "return"
                  ELSE IF elapsed THEN "TimeoutError" ELSE "polling"
    /\ UNCHANGED <<_history, current_value, elapsed, updated>>
    /\ UNCHANGED <<udpVars, fnVars, proxyVars, factoryVars, scanIdVars,
                   trackerVars>>

HistoryInit ==
    /\ UdpInit
    /\ ProxyInit
    /\ FactoryInit
    /\ ScanIdFactoryInit
    /\ TrackerInit
    /\ call = NoCall
    /\ result = NoResult
    /\ \E initial_value \in AttributeValues :
          AttributeHistoryInit(initial_value)

HistoryNext ==
    \/ UpdateValue
    \/ WaitForUpdate
    \/ MaxTimePasses
    \/ CheckUpdated

HistorySpec == HistoryInit /\ [][HistoryNext]_vars

\* C33: a wait_for_update call during which an update changed the value
\* before the timeout returns normally: it raises TimeoutError only when
\* there was no such update.
C33_UpdateEndsWait ==
    wait_pc = "TimeoutError" => ~updated

(***************************************************************************)
(* Part 10: tango/tango.py, class LongRunningCommandTracker, with the      *)
(* Tango event thread, which calls _handle_evt for one event at a time,    *)
(* and one thread that calls wait_for_command_to_complete.  _lock is a     *)
(* rwlock.RWLockWrite and _condvar a threading.Condition:                  *)
(* Condition.wait_for calls the predicate while it owns the condition's    *)
(* lock, Condition.wait releases that lock while it waits and takes it     *)
(* again before it returns.  A step is the acquisition of a lock together  *)
(* with the statements that follow it up to the next acquisition.  The     *)
(* clock is abstracted to whether endtime has passed.                      *)
(***************************************************************************)
MaxEvents == 2

CommandIds == {"command1", "command2"}

\* The command wait_for_command_to_complete is called for.
AwaitedCommand == "command1"

TaskStatus ==
    {"QUEUED", "IN_PROGRESS", "COMPLETED", "ABORTED", "FAILED", "REJECTED"}

\* The dictionaries _handle_evt makes of the value of an event, lines 240-243
StatusValues ==
    {[command_id \in {c} |-> status] :
         c \in CommandIds, status \in TaskStatus}
        \cup [CommandIds -> {"IN_PROGRESS", "COMPLETED"}]

\* The loop of lines 246-253 for one command.
StatusEvents(command_id, status) ==
    LET curr_command_status_events ==
            IF command_id \in DOMAIN _command_status_events
            THEN _command_status_events[command_id]
            ELSE <<>>
    IN  IF \/ Len(curr_command_status_events) = 0
           \/ Last(curr_command_status_events) # status
        THEN Append(curr_command_status_events, status)
        ELSE curr_command_status_events

\* _handle_evt up to "with self._lock.gen_wlock()": an event with err, or
\* with no value on the event and on the device, or with a value that is
\* no list of command ids and statuses, is logged and dropped.
HandleEvt ==
    /\ handler_pc = "idle"
    /\ handled < MaxEvents
    /\ handled' = handled + 1
    /\ \/ UNCHANGED <<handler_pc, values>>
       \/ /\ values' \in StatusValues
          /\ handler_pc' = "wlock"
    /\ UNCHANGED <<_command_status_events, _lock, _condvar, waiter_pc,
                   endtime>>
    /\ UNCHANGED <<udpVars, fnVars, proxyVars, factoryVars, scanIdVars,
                   historyVars>>

\* with self._lock.gen_wlock(): the loop over values.items(), lines 245-253
HandlerUpdate ==
    /\ handler_pc = "wlock"
    /\ _lock.writer = "none"
    /\ _lock' = [_lock EXCEPT !.writer = "handler"]
    /\ _command_status_events' =
           [command_id \in DOMAIN _command_status_events \cup DOMAIN values |->
               IF command_id \in DOMAIN values
               THEN StatusEvents(command_id, values[command_id])
               ELSE _command_status_events[command_id]]
    /\ handler_pc' = "condvar"
    /\ UNCHANGED <<_condvar, values, waiter_pc, endtime, handled>>
    /\ UNCHANGED <<udpVars, fnVars, proxyVars, factoryVars, scanIdVars,
                   historyVars>>

\* with self._condvar: self._condvar.notify_all(), lines 255-256, inside
\* the write lock, and the release of both
HandlerNotify ==
    /\ handler_pc = "condvar"
    /\ _condvar.owner = "none"
    /\ _condvar' = [_condvar EXCEPT !.notified = _condvar.waiting]
    /\ _lock' = [_lock EXCEPT !.writer = "none"]
    /\ handler_pc' = "idle"
    /\ UNCHANGED <<_command_status_events, values, waiter_pc, endtime,
                   handled>>
    /\ UNCHANGED <<udpVars, fnVars, proxyVars, factoryVars, scanIdVars,
                   historyVars>>

\* wait_for_command_to_complete: with self._condvar, line 315
WaitForCommandToComplete ==
    /\ waiter_pc = "idle"
    /\ _condvar.owner = "none"
    /\ _condvar' = [_condvar EXCEPT !.owner = "waiter"]
    /\ waiter_pc' = "predicate"
    /\ endtime' = "None"
    /\ UNCHANGED <<_command_status_events, _lock, handler_pc, values,
                   handled>>
    /\ UNCHANGED <<udpVars, fnVars, proxyVars, factoryVars, scanIdVars,
                   historyVars>>

\* _command_complete(), lines 299-313, evaluated under the read lock
_command_complete(command_id) ==
    /\ command_id \in DOMAIN _command_status_events
    /\ Len(_command_status_events[command_id]) # 0
    /\ Last(_command_status_events[command_id])
           \in {"COMPLETED", "ABORTED", "FAILED", "REJECTED"}

\* One round of Condition.wait_for: the predicate is called under the read
\* lock; when it is true the call returns; when it is false and endtime
\* has passed, TimeoutError is raised; otherwise the thread waits.
Predicate ==
    /\ waiter_pc = "predicate"
    /\ _lock.writer = "none"
    /\ IF _command_complete(AwaitedCommand)
       THEN /\ waiter_pc' = "return"
            /\ _condvar' = [_condvar EXCEPT !.owner = "none"]
            /\ UNCHANGED endtime
       ELSE IF endtime = "passed"
            THEN /\ waiter_pc' = "TimeoutError"
                 /\ _condvar' = [_condvar EXCEPT !.owner = "none"]
                 /\ UNCHANGED endtime
            ELSE /\ waiter_pc' = "wait"
                 /\ _condvar' = [owner |-> "none",
                                 waiting |-> TRUE,
                                 notified |-> FALSE]
                 /\ endtime' = "set"
    /\ UNCHANGED <<_command_status_events, _lock, handler_pc, values,
                   handled>>
    /\ UNCHANGED <<udpVars, fnVars, proxyVars, factoryVars, scanIdVars,
                   historyVars>>

\* the clock reaches endtime
EndtimePasses ==
    /\ endtime = "set"
    /\ waiter_pc \in {"predicate", "wait", "reacquire"}
    /\ endtime' = "passed"
    /\ UNCHANGED <<_command_status_events, _lock, _condvar, handler_pc,
                   values, waiter_pc, handled>>
    /\ UNCHANGED <<udpVars, fnVars, proxyVars, factoryVars, scanIdVars,
                   historyVars>>

\* Condition.wait: the thread was notified or its timeout has passed
Wake ==
    /\ waiter_pc = "wait"
    /\ _condvar.notified \/ endtime = "passed"
    /\ _condvar' = [_condvar EXCEPT !.waiting = FALSE, !.notified = FALSE]
    /\ waiter_pc' = "reacquire"
    /\ UNCHANGED <<_command_status_events, _lock, handler_pc, values,
                   endtime, handled>>
    /\ UNCHANGED <<udpVars, fnVars, proxyVars, factoryVars, scanIdVars,
                   historyVars>>

\* Condition.wait takes the condition's lock again before it returns
Reacquire ==
    /\ waiter_pc = "reacquire"
    /\ _condvar.owner = "none"
    /\ _condvar' = [_condvar EXCEPT !.owner = "waiter"]
    /\ waiter_pc' = "predicate"
    /\ UNCHANGED <<_command_status_events, _lock, handler_pc, values,
                   endtime, handled>>
    /\ UNCHANGED <<udpVars, fnVars, proxyVars, factoryVars, scanIdVars,
                   historyVars>>

TrackerNext ==
    \/ HandleEvt
    \/ HandlerUpdate
    \/ HandlerNotify
    \/ WaitForCommandToComplete
    \/ Predicate
    \/ EndtimePasses
    \/ Wake
    \/ Reacquire

TrackerSpec == Init /\ [][TrackerNext]_vars

\* The caller of wait_for_command_to_complete has not left the call.
Waiting == waiter_pc \in {"predicate", "wait", "reacquire"}

\* A step of the caller, of the running handler, or of the clock.
Progress ==
    \/ Predicate
    \/ Wake
    \/ Reacquire
    \/ EndtimePasses
    \/ HandlerUpdate
    \/ HandlerNotify

\* C34: wait_for_command_to_complete never blocks forever under any
\* interleaving with _handle_evt: while the call has neither returned nor
\* raised TimeoutError, the caller, the running event handler or the
\* clock can take a step.
C34_WaitNeverBlocks ==
    Waiting => ENABLED Progress

(***************************************************************************)
(* Part 11: scan_config/scan_config_generator.py, calculate_resolution and *)
(* ScanConfigGenerator.calculate_resources, one call at a time             *)
(* (ResourcesSpec).  The keys band, telescope and local_host, which come   *)
(* from the facility and the network interface, are left out of the        *)
(* result; overrides is empty.                                             *)
(***************************************************************************)
\* calculate_resolution(udp_format, nchan, ndim, npol, nbits, **kwargs)
calculate_resolution(udp_format, nchan, ndim, npol, nbits) ==
    LET nsamp_per_packet == IF udp_format = "LowPST" THEN 32 ELSE 185
    IN  (nsamp_per_packet * nchan * ndim * npol * nbits) \div 8

\* ScanConfigGenerator.calculate_resources: a dict display with ** takes a
\* key from the last dict that has it
calculate_resources(beam_id, scan_request_params) ==
    LET frequency_band_config ==
            get_frequency_band_config(frequency_band_of(scan_request_params))
        smrb_resources ==
            calculate_smrb_subband_resources(beam_id, scan_request_params)
        recv_resources ==
            calculate_receive_subband_resources(beam_id, scan_request_params,
                                                "127.0.0.1", <<10000>>)
        recv_scan == generate_recv_scan_request(scan_request_params)
        common == recv_resources.common
    IN  IF frequency_band_config.kind # "return"
        THEN frequency_band_config
        ELSE IF smrb_resources.kind # "return"
        THEN smrb_resources
        ELSE IF recv_resources.kind # "return"
        THEN recv_resources
        ELSE IF recv_scan.kind # "return"
        THEN recv_scan
        ELSE [kind |-> "return",
              value |->
                  [beam_id |-> IF "timing_beam_id"
                                      \in DOMAIN scan_request_params
                               THEN scan_request_params.timing_beam_id
                               ELSE beam_id,
                   resolution |->
                       calculate_resolution(common.udp_format, common.nchan,
                                            common.ndim, common.npol,
                                            common.nbits)]
                      @@ recv_resources.subbands[1]
                      @@ common
                      @@ recv_scan
                      @@ smrb_resources.value[1]
                      @@ scan_request_params
                      @@ frequency_band_config.value]

\* The request _generate_pst_scan_config makes for a frequency band (lines
\* 282 to 288), with the frequency_band of the common configuration.
GeneratedRequest(frequency_band) ==
    LET frequency_band_config ==
            get_frequency_band_config(<<frequency_band>>).value
    IN  Override(BaseRequest,
                 [frequency_band |-> frequency_band,
                  udp_nsamp |-> frequency_band_config.packet_nsamp,
                  wt_nsamp |-> frequency_band_config.packet_nsamp,
                  udp_nchan |-> frequency_band_config.packet_nchan])

Bands == {"low"} \cup DOMAIN MID_BAND_CONFIG

\* The requests of a call: the generated request of each band, and that
\* request with other shapes of the data and other numbers of samples per
\* packet and per weight.
ResourcesRequests ==
    {GeneratedRequest(band) : band \in Bands}
        \cup {Override(GeneratedRequest(band), shape) :
                  band \in Bands,
                  shape \in [num_frequency_channels : {432, 864},
                             num_of_polarizations : {1, 2},
                             bits_per_sample : {16, 32},
                             udp_nsamp : {4, 6, 32},
                             wt_nsamp : {4, 32}]}

ResourcesCalls ==
    [op : {"calculate_resources"},
     beam_id : {1},
     scan_request_params : ResourcesRequests]

GeneratorCalculateResources ==
    /\ call.op = "calculate_resources"
    /\ result = Pending
    /\ result' = calculate_resources(call.beam_id, call.scan_request_params)
    /\ UNCHANGED <<udpVars, proxyVars, utilVars, call>>

ResourcesInit ==
    /\ UdpInit
    /\ ProxyInit
    /\ UtilInit
    /\ call \in ResourcesCalls
    /\ result = Pending

ResourcesSpec == ResourcesInit /\ [][GeneratorCalculateResources]_vars

\* The call was made with the request the generator makes for its band.
Generated ==
    call.scan_request_params
        = GeneratedRequest(call.scan_request_params.frequency_band)

\* C36: for the request generated for any band, db_bufsz is
\* packets_per_buffer times the resolution of the calculated resources,
\* and the buffer size check_contiguous_files makes of them is db_bufsz.
C36_ResolutionSizesTheRingBuffer ==
    (Done("calculate_resources") /\ result.kind = "return" /\ Generated)
        => /\ result.value.db_bufsz
                  = result.value.packets_per_buffer * result.value.resolution
           /\ buffer_size(result.value, "data") = result.value.db_bufsz

\* wb_bufsz / packets_per_buffer is the wt_resolution check_contiguous_files
\* makes of the calculated resources.
SameWeightsResolution ==
    /\ result.value.wb_bufsz % result.value.packets_per_buffer = 0
    /\ result.value.wb_bufsz \div result.value.packets_per_buffer
           = wt_resolution(result.value)

\* C37 as stated: for every request, also with udp_nsamp other than
\* wt_nsamp, the weights resolution of the ring buffer is the wt_resolution
\* of check_contiguous_files.
C37_WeightsResolutionAgrees ==
    (Done("calculate_resources") /\ result.kind = "return")
        => SameWeightsResolution

\* C37: for every request with udp_nsamp // wt_nsamp == 1, which includes
\* udp_nsamp == wt_nsamp, the weights resolution of the ring buffer is the
\* wt_resolution of check_contiguous_files, also when udp_nsamp is not the
\* packet_nsamp of the band.
C37_WeightsResolutionAgreesForOneWeight ==
    (/\ Done("calculate_resources")
     /\ result.kind = "return"
     /\ call.scan_request_params.udp_nsamp
            \div call.scan_request_params.wt_nsamp = 1)
        => SameWeightsResolution

\* A Mid request of 6 samples per packet and 4 samples per weight.
C37_Witness ==
    /\ Done("calculate_resources")
    /\ result.kind = "return"
    /\ call.scan_request_params.frequency_band = "3"
    /\ call.scan_request_params.udp_nsamp = 6
    /\ call.scan_request_params.wt_nsamp = 4
    /\ result.value.packet_nsamp = 4
    /\ result.value.wb_bufsz = 512 * (432 * 2 + 2 * 4)

====
